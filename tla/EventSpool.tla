----------------------------- MODULE EventSpool -----------------------------
(***************************************************************************)
(* The Worker's durable event spool: the in-memory cursors of one          *)
(* assignment and the write-ahead file they are rebuilt from.  Pending     *)
(* events are always the range ack+1..high, so a spool is two cursors and  *)
(* the rejection flag; a file is a sequence of records.                    *)
(***************************************************************************)
EXTENDS Naturals, Sequences

CONSTANT MaxPending      \* maxPendingEvents of an assignment
ASSUME MaxPendingAssumption == MaxPending \in Nat \ {0}

Rec(k, n) == [kind |-> k, seq |-> n]
Torn      == Rec("torn", 0)      \* bytes after the last newline

OpenedFile(ack)  == << Rec("assignment", ack) >>
OpenedSpool(ack) == [ack |-> ack, high |-> ack, rejected |-> FALSE]
Pending(sp)      == sp.high - sp.ack

CanAppend(sp) == ~sp.rejected /\ Pending(sp) < MaxPending
AppendSpool(sp)      == [sp EXCEPT !.high = @ + 1]
AppendFile(file, sp) == Append(file, Rec("event", sp.high + 1))

(* acknowledge: cumulative; a regression or an ACK of something never      *)
(* produced is refused, an exact repeat is a no-op.                        *)
CanAcknowledge(sp, n)  == ~sp.rejected /\ n >= sp.ack /\ n <= sp.high
AcknowledgeSpool(sp, n) == [sp EXCEPT !.ack = n]
CompactFile(sp) ==
    << Rec("assignment", sp.ack) >>
        \o [i \in 1..Pending(sp) |-> Rec("event", sp.ack + i)]

(* The ACK record is appended; the file is rewritten when nothing is       *)
(* pending, or when it outgrew its pending part (big).                     *)
AcknowledgeFile(file, sp, n, big) ==
    LET after == AcknowledgeSpool(sp, n) IN
    IF n = sp.ack THEN file
    ELSE IF Pending(after) = 0 \/ big THEN CompactFile(after)
    ELSE Append(file, Rec("ack", n))

RejectSpool(sp)      == [sp EXCEPT !.rejected = TRUE]
RejectFile(file, sp) == Append(file, Rec("rejection", sp.ack + 1))

(* truncatePartialTail drops the bytes after the last newline.             *)
Complete(file) ==
    IF file[Len(file)] = Torn THEN SubSeq(file, 1, Len(file) - 1) ELSE file

(* loadWal, record by record; "corrupt" is any of its EventSpoolErrors.    *)
Corrupt == [ack |-> 0, high |-> 0, rejected |-> TRUE, corrupt |-> TRUE]
LoadStep(sp, r) ==
    IF sp = Corrupt \/ sp.rejected THEN Corrupt
    ELSE CASE r.kind = "event" /\ r.seq = sp.high + 1 -> AppendSpool(sp)
           [] r.kind = "ack" /\ r.seq \in sp.ack..sp.high -> [sp EXCEPT !.ack = r.seq]
           [] r.kind = "rejection" /\ r.seq \in (sp.ack + 1)..sp.high -> RejectSpool(sp)
           [] OTHER -> Corrupt
Replay(recs) ==
    LET upto[n \in 1..Len(recs)] ==
            IF n = 1 THEN OpenedSpool(recs[1].seq) ELSE LoadStep(upto[n - 1], recs[n])
    IN  upto
Load(file) ==
    LET recs == Complete(file)
        sp   == Replay(recs)[Len(recs)]
    IN  IF recs = << >> \/ recs[1].kind # "assignment" THEN Corrupt
        ELSE IF Pending(sp) > MaxPending THEN Corrupt ELSE sp
=============================================================================
