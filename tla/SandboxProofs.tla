---------------------------- MODULE SandboxProofs ----------------------------
(***************************************************************************)
(* The Tool Broker's ownership of Workspaces, for every number of          *)
(* replicas, Runs, terminals, environments and faults: Spec => []OneWriter *)
(* and Spec => []RuntimesAccounted.                                        *)
(*                                                                         *)
(* That two VMs never write one Volume rests on three facts: a VM that     *)
(* writes has a row that holds its Workspace (VmHeld), rows hold a         *)
(* Workspace alone (HeldAlone) but for a terminal that still retires the   *)
(* warm activation it replaces, and an activation is the business of one   *)
(* replica, whose provider has its VM (HomesOK).                           *)
(* The rest of BrokerInv says who may still write a row: the calls under   *)
(* way (FlowsOK, EnvFlows), the reapers (ReapOK) and replicas that are     *)
(* down (DownOK).                                                          *)
(***************************************************************************)
EXTENDS SandboxBroker, FiniteSetTheorems, SequenceTheorems, TLAPS

-----------------------------------------------------------------------------
(* The inductive invariant.                                                *)

\* A VM that may write its Volume: up, and not cut off from its reservation.
Written(h) == Up(h) /\ ~vm[h].stray
\* A row that holds the Workspace: live, and past the mere request of an environment.
Held(h) == Live(h) /\ row[h].state # "requested"

\* Types of the fields of a replica's memory and of the rows.
WarmType ==
    {NoWarm} \cup [id : Runs, run : Runs, keep : {"suspended", "ephemeral", "persistent", "destroy"}]
ActType == {NoAct} \cup [run : Runs, handle : BOOLEAN, mat : BOOLEAN]
MemoryType ==
    [act : [Runs -> ActType], warm : [Workspaces -> WarmType], susp : [Workspaces -> WarmType],
     open : SUBSET Holders, ptys : SUBSET Holders, admitted : SUBSET Holders,
     waiters : Seq(Holders), reaping : SUBSET Holders]
RowType == [state : RowState, owner : Brokers \cup {None}, run : Runs \cup {None}]
VmType == [state : {"none", "running", "idle", "paused"},
           run : Runs \cup {None}, prov : Brokers \cup {None}, stray : BOOLEAN]
OpType == [state : {"none", "running", "succeeded", "failed", "cancelled", "unknown"},
           by : Brokers \cup {None}]
\* The phases of a call under way.
OpenPhases == (Phases \cup {"retire"}) \ {"none"}
FlowType ==
    {NoFlow} \cup [phase : OpenPhases, by : Brokers,
                   kind : {"exec", "fork", "terminal", "environment"}, id : Holders]
CloseType ==
    {NoClose} \cup [how : {"ephemeral", "persistent", "destroy"},
                    by : Brokers, id : Runs, handle : BOOLEAN]

\* Every variable, with the memory of the replicas, has its type.
BrokerTypes ==
    /\ inst \in [Brokers -> {"absent", "ready", "expired", "lost", "stopped"}]
    /\ up \in [Brokers -> BOOLEAN]
    /\ row \in [Holders -> RowType]
    /\ op \in [Runs -> OpType]
    /\ ran \in [Runs -> Nat]
    /\ run \in [Runs -> {"queued", "open", "ended"}]
    /\ vm \in [Holders -> VmType]
    /\ mem \in [Brokers -> MemoryType]
    /\ flow \in [Holders -> FlowType]
    /\ closing \in [Runs -> CloseType]
    /\ withdraw \subseteq Envs /\ faults \in Nat

\* A row is in a state of its own table, and an unclaimed one has no owner.
RowsOK ==
    \A h \in Holders :
        /\ h \in Runs => row[h].state \in LiveActivation \cup {"none", "released"}
        /\ h \in Terminals => row[h].state \in LiveTerminal \cup {"none", "released"}
        /\ h \in Envs => row[h].state \in LiveEnvironment \cup {"none", "failed", "released"}
        /\ row[h].state \in {"none", "requested"} => row[h].owner = None

\* A call under way runs in a live replica and is about an activation, or about the
\* holder it was made for; a terminal retires an activation of its own Workspace.
FlowOK(x) ==
    \/ flow[x] = NoFlow
    \/ /\ up[flow[x].by] /\ inst[flow[x].by] # "absent"
       /\ IF x \in Runs \/ flow[x].phase = "retire" THEN flow[x].id \in Runs ELSE flow[x].id = x
       /\ flow[x].phase = "retire" => x \in Terminals /\ WorkspaceOf[flow[x].id] = WorkspaceOf[x]

FlowsOK == \A x \in Holders : FlowOK(x)

\* While an environment starts, it is not open yet, and unless its replica lost the
\* lease its row is "provisioning" under that replica, with no VM before "created".
EnvFlows ==
    \A e \in Envs :
        flow[e] # NoFlow =>
            /\ \A b \in Brokers : flow[e].by = b => e \notin mem[b].open
            /\ Current(flow[e].by) =>
                  \/ row[e].state = "released"
                  \/ /\ row[e].state = "provisioning" /\ row[e].owner = flow[e].by
                     /\ flow[e].phase # "created" => ~Written(e)

\* Every VM that may write is accounted for by a row that holds its Workspace.
VmHeld == \A h \in Holders : Written(h) => Held(h)

\* A terminal that still retires the warm activation whose Workspace it took.
Retiring(t, a) ==
    t \in Terminals /\ a \in Runs /\ flow[t].phase \in {"none", "retire"} /\ ~Written(t)

\* Two rows hold one Workspace only while the terminal of one retires the other.
HeldAlone ==
    \A g, h \in Holders :
        Held(g) /\ Held(h) /\ WorkspaceOf[g] = WorkspaceOf[h] /\ g # h =>
            Retiring(g, h) \/ Retiring(h, g)

\* An activation some entry of a replica's memory names.
KnownIn(m, a) ==
    m.act[a] # NoAct \/ \E w \in Workspaces : m.warm[w].id = a \/ m.susp[w].id = a

\* An activation a replica still has to do with: in memory, in a call or in a release.
Knows(b, a) ==
    \/ KnownIn(mem[b], a)
    \/ \E x \in Runs : flow[x].by = b /\ flow[x].id = a
    \/ \E r \in Runs : closing[r].by = b /\ closing[r].id = a

\* An activation is known to one replica at most, one that is up, and what VM of it may
\* write belongs to that replica's provider.
HomesOK ==
    \A a \in Runs, b \in Brokers :
        Knows(b, a) =>
            /\ up[b] /\ row[a].state # "none"
            /\ \A c \in Brokers : Knows(c, a) => c = b
            /\ Written(a) => vm[a].prov = b

\* An environment being reaped is closed, and the reaper owns its row while it is current.
ReapOK ==
    \A e \in Envs, b \in Brokers :
        e \in mem[b].reaping =>
            /\ e \notin mem[b].open
            /\ Current(b) => \/ row[e].state = "released"
                             \/ row[e].state = "releasing" /\ row[e].owner = b

\* A replica that is down remembers nothing.
DownOK ==
    \A b \in Brokers : /\ ~up[b] => mem[b] = EmptyMemory
                       /\ inst[b] = "absent" => ~up[b]

\* The inductive invariant.
BrokerInv ==
    /\ BrokerTypes /\ RowsOK /\ FlowsOK /\ EnvFlows /\ ReapOK /\ DownOK
    /\ VmHeld /\ HeldAlone /\ HomesOK
-----------------------------------------------------------------------------
(* Types of the helpers.                                                   *)

\* What the assumption says of the holders.
LEMMA ConstantTypes ==
    /\ WorkspaceOf \in [Holders -> Workspaces]
    /\ Runs \subseteq Holders /\ Terminals \subseteq Holders /\ Envs \subseteq Holders
    /\ None \notin Brokers /\ None \notin Holders /\ None \notin Runs
    /\ Dispositions \subseteq {"ephemeral", "persistent", "destroy"}
  BY SandboxBrokerAssumption DEF Holders

\* The empty values have the types of the fields they fill.
LEMMA NothingTypes ==
    /\ NoVm \in VmType /\ NoAct \in ActType /\ NoWarm \in WarmType
    /\ NoFlow \in FlowType /\ NoClose \in CloseType /\ EmptyMemory \in MemoryType
  BY DEF NoVm, VmType, NoAct, ActType, NoWarm, WarmType, NoFlow, FlowType, NoClose, CloseType,
     Phases, EmptyMemory, MemoryType

\* SetState stays within its type.
LEMMA SetStateType ==
    ASSUME BrokerTypes, NEW b, NEW h \in Holders, NEW s \in RowState
    PROVE  SetState(b, h, s) \in [Holders -> RowType]
  BY DEF BrokerTypes, SetState, RowType

\* Orphaned stays within its type.
LEMMA OrphanedType ==
    ASSUME BrokerTypes, NEW bs, NEW ts
    PROVE  Orphaned(bs, ts) \in [Holders -> RowType] /\ OperationsLost(bs) \in [Runs -> OpType]
  <1>1. "unknown" \in RowState
    BY DEF RowState, LiveActivation
  <1>2. Orphaned(bs, ts) \in [Holders -> RowType]
    BY <1>1 DEF BrokerTypes, Orphaned, RowType
  <1>3. OperationsLost(bs) \in [Runs -> OpType]
    BY DEF BrokerTypes, OperationsLost, OpType
  <1> QED BY <1>2, <1>3

\* SettleOperation stays within its type.
LEMMA SettleOperationType ==
    ASSUME BrokerTypes, NEW b, NEW r \in Runs, NEW s \in {"succeeded", "failed", "cancelled"}
    PROVE  SettleOperation(b, r, s) \in [Runs -> OpType]
  BY DEF BrokerTypes, SettleOperation, OpType

\* ReleaseAdmission stays within its type.
LEMMA ReleaseAdmissionType ==
    ASSUME NEW m \in MemoryType, NEW h
    PROVE  /\ ReleaseAdmission(m, h) \in MemoryType
           /\ ReleaseAdmission(m, h).act = m.act /\ ReleaseAdmission(m, h).warm = m.warm
           /\ ReleaseAdmission(m, h).susp = m.susp /\ ReleaseAdmission(m, h).open = m.open
           /\ ReleaseAdmission(m, h).ptys = m.ptys
           /\ ReleaseAdmission(m, h).reaping = m.reaping
  <1>1. CASE h \notin m.admitted
    BY <1>1 DEF ReleaseAdmission
  <1>2. CASE h \in m.admitted /\ m.waiters = <<>>
    BY <1>2 DEF ReleaseAdmission, MemoryType
  <1>3. CASE h \in m.admitted /\ m.waiters # <<>>
    <2>1. m.waiters \in Seq(Holders) /\ m.admitted \in SUBSET Holders
      BY DEF MemoryType
    <2>2. Head(m.waiters) \in Holders /\ Tail(m.waiters) \in Seq(Holders)
      BY <2>1, <1>3
    <2> QED BY <2>1, <2>2, <1>3 DEF ReleaseAdmission, MemoryType
  <1> QED BY <1>1, <1>2, <1>3

\* CancelAdmissionWaiter stays within its type.
LEMMA CancelAdmissionWaiterType ==
    ASSUME NEW m \in MemoryType, NEW h
    PROVE  /\ CancelAdmissionWaiter(m, h) \in MemoryType
           /\ CancelAdmissionWaiter(m, h) = [m EXCEPT !.waiters = CancelAdmissionWaiter(m, h).waiters]
  <1> DEFINE waits == {i \in 1..Len(m.waiters) : m.waiters[i] = h}
             i == CHOOSE i \in waits : TRUE
             rest == SubSeq(m.waiters, 1, i - 1) \o SubSeq(m.waiters, i + 1, Len(m.waiters))
  <1>1. m.waiters \in Seq(Holders)
    BY DEF MemoryType
  <1>2. CASE waits = {}
    BY <1>2 DEF CancelAdmissionWaiter, MemoryType
  <1>3. CASE waits # {}
    <2>1. i \in 1..Len(m.waiters)
      BY <1>3
    <2>2. rest \in Seq(Holders)
      <3> HIDE DEF i
      <3>1. 1 \in Int /\ i \in Int /\ Len(m.waiters) \in Int /\ i - 1 \in Int /\ i + 1 \in Int
        BY <1>1, <2>1
      <3>2. \A j \in 1..(i - 1) : m.waiters[j] \in Holders
        BY <1>1, <2>1
      <3>3. \A j \in (i + 1)..Len(m.waiters) : m.waiters[j] \in Holders
        BY <1>1, <2>1
      <3>4. SubSeq(m.waiters, 1, i - 1) \in Seq(Holders)
        BY <3>1, <3>2, SubSeqProperties, Zenon
      <3>5. SubSeq(m.waiters, i + 1, Len(m.waiters)) \in Seq(Holders)
        BY <3>1, <3>3, SubSeqProperties, Zenon
      <3> QED BY <3>4, <3>5
    <2>3. CancelAdmissionWaiter(m, h) = [m EXCEPT !.waiters = rest]
      BY <1>3 DEF CancelAdmissionWaiter
    <2> QED BY <2>2, <2>3 DEF MemoryType
  <1> QED BY <1>2, <1>3

\* Revoke stays within its type.
LEMMA RevokeType ==
    ASSUME NEW m \in MemoryType, NEW a \in Runs
    PROVE  /\ Revoke(m, a) \in MemoryType
           /\ Revoke(m, a).act = [m.act EXCEPT ![a] = NoAct] /\ Revoke(m, a).warm = m.warm
           /\ Revoke(m, a).susp = m.susp /\ Revoke(m, a).open = m.open
           /\ Revoke(m, a).ptys = m.ptys /\ Revoke(m, a).reaping = m.reaping
           /\ Revoke(m, a).admitted = m.admitted
  <1> DEFINE n == [m EXCEPT !.act[a] = NoAct]
  <1>1. n \in MemoryType
    BY NothingTypes DEF MemoryType
  <1>2. CancelAdmissionWaiter(n, a) \in MemoryType
        /\ CancelAdmissionWaiter(n, a) = [n EXCEPT !.waiters = CancelAdmissionWaiter(n, a).waiters]
    BY <1>1, CancelAdmissionWaiterType
  <1> QED BY <1>1, <1>2 DEF Revoke, MemoryType

\* VMs stay VMs under the calls of the provider.
LEMMA VmTypes ==
    ASSUME NEW v \in [Holders -> VmType], NEW h \in Holders, NEW ok \in BOOLEAN
    PROVE  /\ Destroyed(v, h, ok) \in [Holders -> VmType]
           /\ Discarded(v, h, ok) \in [Holders -> VmType]
           /\ \A r \in Runs : Rebound(v, h, r) \in [Holders -> VmType]
           /\ [v EXCEPT ![h] = NoVm] \in [Holders -> VmType]
           /\ \A s \in {"running", "idle", "paused"} :
                 [v EXCEPT ![h].state = s] \in [Holders -> VmType]
  BY NothingTypes DEF Destroyed, Discarded, Rebound, VmType

\* NewVm stays within its type.
LEMMA NewVmType ==
    ASSUME NEW b \in Brokers, NEW h \in Holders, NEW r \in Runs \cup {None}
    PROVE  NewVm(b, h, r) \in VmType
  BY DEF NewVm, VmType

\* Call stays within its type.
LEMMA CallType ==
    ASSUME BrokerTypes, NEW ok, Call(ok)
    PROVE  faults' \in Nat
  BY SandboxBrokerAssumption DEF BrokerTypes, Call
-----------------------------------------------------------------------------
(* Types of the instance steps and of the admission *)

\* Types of what MarkLost writes.
LEMMA MarkLostTypes ==
    ASSUME BrokerTypes, NEW i \in [Brokers -> {"absent", "ready", "expired", "lost", "stopped"}],
           MarkExpiredOwnersLost(i)
    PROVE  /\ inst' \in [Brokers -> {"absent", "ready", "expired", "lost", "stopped"}]
           /\ row' \in [Holders -> RowType] /\ op' \in [Runs -> OpType]
  BY OrphanedType DEF MarkExpiredOwnersLost

\* Types of the steps of the leases.
LEMMA InstanceTypes ==
    ASSUME BrokerTypes, NEW b \in Brokers, Start(b) \/ Renew(b) \/ LeaseExpires(b)
    PROVE  BrokerTypes'
  <1>1. CASE Start(b)
    BY <1>1, MarkLostTypes DEF BrokerTypes, Start
  <1>2. CASE Renew(b)
    BY <1>2, MarkLostTypes DEF BrokerTypes, Renew
  <1>3. CASE LeaseExpires(b)
    BY <1>3 DEF LeaseExpires, BrokerTypes
  <1> QED BY <1>1, <1>2, <1>3

\* A memory in which one replica's part is another one of the type.
LEMMA MemoryStep ==
    ASSUME BrokerTypes, NEW b \in Brokers, NEW m \in MemoryType
    PROVE  [mem EXCEPT ![b] = m] \in [Brokers -> MemoryType]
  BY DEF BrokerTypes

\* Reserved stays within its type.
LEMMA ReservedType ==
    ASSUME BrokerTypes, NEW b \in Brokers, NEW a \in Runs, NEW r \in Runs
    PROVE  Reserved(b, a, r) \in [Holders -> RowType]
  BY ConstantTypes DEF Reserved, BrokerTypes, RowType, RowState, LiveActivation

\* Activation stays within its type.
LEMMA ActivationType ==
    ASSUME NEW r \in Runs, NEW handle \in BOOLEAN
    PROVE  Activation(r, handle) \in ActType
  BY DEF Activation, ActType

\* A warm or suspended entry names an activation.
LEMMA WarmIds ==
    ASSUME BrokerTypes, NEW b \in Brokers, NEW w \in Workspaces
    PROVE  /\ mem[b] \in MemoryType
           /\ mem[b].warm[w] \in WarmType /\ mem[b].susp[w] \in WarmType
           /\ \A a \in Runs : mem[b].act[a] \in ActType
  BY DEF BrokerTypes, MemoryType

\* Memories stay memories when one field changes within its type.
LEMMA MemoryFields ==
    ASSUME NEW m \in MemoryType
    PROVE  /\ \A a \in Runs, x \in ActType : [m EXCEPT !.act[a] = x] \in MemoryType
           /\ \A w \in Workspaces, x \in WarmType : [m EXCEPT !.warm[w] = x] \in MemoryType
           /\ \A w \in Workspaces, x \in WarmType : [m EXCEPT !.susp[w] = x] \in MemoryType
           /\ \A S \in SUBSET Holders : [m EXCEPT !.open = S] \in MemoryType
           /\ \A S \in SUBSET Holders : [m EXCEPT !.ptys = S] \in MemoryType
           /\ \A S \in SUBSET Holders : [m EXCEPT !.admitted = S] \in MemoryType
           /\ \A S \in SUBSET Holders : [m EXCEPT !.reaping = S] \in MemoryType
           /\ \A s \in Seq(Holders) : [m EXCEPT !.waiters = s] \in MemoryType
  BY DEF MemoryType

\* Types of what CreateCold writes.
LEMMA CreateColdTypes ==
    ASSUME BrokerTypes, NEW b \in Brokers, NEW r \in Runs, CreateCold(b, r)
    PROVE  BrokerTypes'
  BY ReservedType, ActivationType, MemoryFields, MemoryStep DEF CreateCold, BrokerTypes

\* Types of what CreateWarm writes.
LEMMA CreateWarmTypes ==
    ASSUME BrokerTypes, NEW b \in Brokers, NEW r \in Runs, CreateWarm(b, r)
    PROVE  BrokerTypes'
  <1> DEFINE w == WorkspaceOf[r]
             e == mem[b].warm[w]
             m == [mem[b] EXCEPT !.warm[w] = NoWarm]
             n == [m EXCEPT !.act[e.id] = Activation(r, TRUE)]
  <1>1. e.id \in Runs /\ w \in Workspaces
    BY ConstantTypes, WarmIds DEF CreateWarm, WarmType
  <1>2. CASE Reserve(b, e.id, r, TRUE)
    <2>1. row' \in [Holders -> RowType]
      BY <1>1, <1>2, ReservedType DEF CreateWarm
    <2>2. m \in MemoryType
      BY <1>1, MemoryFields, WarmIds, NothingTypes
    <2>3. n \in MemoryType
      BY <1>1, <2>2, ActivationType, MemoryFields
    <2>4. mem' = [mem EXCEPT ![b] = n]
      BY <1>2 DEF CreateWarm, BrokerTypes
    <2>5. mem' \in [Brokers -> MemoryType]
      BY <2>3, <2>4, MemoryStep
    <2> QED BY <1>2, <2>1, <2>5 DEF CreateWarm, BrokerTypes
  <1>3. CASE ~Reserve(b, e.id, r, TRUE)
    <2>1. m \in MemoryType
      BY <1>1, MemoryFields, WarmIds, NothingTypes
    <2>2. mem' = [mem EXCEPT ![b] = m]
      BY <1>3 DEF CreateWarm, BrokerTypes
    <2>3. mem' \in [Brokers -> MemoryType]
      BY <2>1, <2>2, MemoryStep
    <2> QED BY <1>3, <2>3 DEF CreateWarm, BrokerTypes
  <1> QED BY <1>2, <1>3
\* The phases, and what follows from one of a call under way.
LEMMA ThePhases ==
    /\ "admit" \in OpenPhases /\ "wait" \in OpenPhases /\ "provide" \in OpenPhases
    /\ "creating" \in OpenPhases /\ "created" \in OpenPhases /\ "exec" \in OpenPhases
    /\ "retire" \in OpenPhases /\ "none" \notin OpenPhases
  BY DEF OpenPhases, Phases

\* A call that goes on keeps the type of the calls.
LEMMA FlowStep ==
    ASSUME BrokerTypes, NEW x \in Holders
    PROVE  /\ [flow EXCEPT ![x] = NoFlow] \in [Holders -> FlowType]
           /\ flow[x] # NoFlow => \A p \in OpenPhases :
                 [flow EXCEPT ![x].phase = p] \in [Holders -> FlowType]
           /\ \A p \in OpenPhases, b \in Brokers,
                 k \in {"exec", "fork", "terminal", "environment"}, h \in Holders :
                 [flow EXCEPT ![x] = [phase |-> p, by |-> b, kind |-> k, id |-> h]] \in [Holders -> FlowType]
           /\ flow[x] # NoFlow => flow[x].id \in Holders /\ flow[x].by \in Brokers
  BY DEF BrokerTypes, FlowType

\* Types of what a discard of a warm Sandbox writes.
LEMMA DiscardWarmTypes ==
    ASSUME BrokerTypes, NEW b \in Brokers, NEW w \in Workspaces, NEW ok \in BOOLEAN,
           NEW other \in [Holders -> RowType], DiscardWarm(b, w, ok, other)
    PROVE  /\ vm' \in [Holders -> VmType] /\ mem' \in [Brokers -> MemoryType]
           /\ row' \in [Holders -> RowType] /\ faults' \in Nat
           /\ mem[b].warm[w].id \in Runs
           /\ UNCHANGED <<inst, up, ran, run, closing, withdraw>>
  BY WarmIds, MemoryFields, NothingTypes, ReleaseAdmissionType, VmTypes, ConstantTypes,
     SetStateType, CallType DEF DiscardWarm, WarmType, BrokerTypes, RowState

\* Types of the discards.
LEMMA DiscardTypes ==
    ASSUME BrokerTypes, NEW b \in Brokers,
           \/ \E r \in Runs : CreateDiscards(b, r)
           \/ \E w \in Workspaces : ReapWarm(b, w) \/ ReapRetiredWarm(b, w)
    PROVE  BrokerTypes'
  BY ConstantTypes, DiscardWarmTypes DEF CreateDiscards, ReapWarm, ReapRetiredWarm, BrokerTypes

\* Types of what CreateDelegated writes.
LEMMA CreateDelegatedTypes ==
    ASSUME BrokerTypes, NEW b \in Brokers, NEW r \in Runs, CreateDelegated(b, r)
    PROVE  BrokerTypes'
  <1>1. PICK a \in ActiveAt(b, WorkspaceOf[r]) :
        LET p == mem[b].act[a].run
            sealed == mem[b].act[a].handle /\ mem[b].act[a].mat
        IN  /\ vm' = IF sealed THEN [vm EXCEPT ![a].state = "idle"] ELSE vm
            /\ IF Reserve(b, a, r, FALSE)
               THEN /\ row' = Reserved(b, a, r)
                    /\ mem' = [mem EXCEPT ![b].susp[WorkspaceOf[r]] =
                                              [id |-> a, run |-> p, keep |-> "suspended"],
                                          ![b].act[a] = Activation(r, mem[b].act[a].handle)]
                    /\ run' = [run EXCEPT ![r] = "open"]
               ELSE mem' = [mem EXCEPT ![b].act[a].mat = FALSE] /\ UNCHANGED <<row, run>>
            /\ UNCHANGED <<inst, up, op, ran, flow, closing, withdraw, faults>>
    BY DEF CreateDelegated
  <1> DEFINE x == mem[b].act[a]
             w == WorkspaceOf[r]
             s == [id |-> a, run |-> x.run, keep |-> "suspended"]
             m == [mem[b] EXCEPT !.susp[w] = s]
             n == [m EXCEPT !.act[a] = Activation(r, x.handle)]
             y == [x EXCEPT !.mat = FALSE]
             o == [mem[b] EXCEPT !.act[a] = y]
  <1>2. a \in Runs /\ x \in ActType /\ x # NoAct /\ w \in Workspaces /\ mem[b] \in MemoryType
    BY ConstantTypes DEF ActiveAt, BrokerTypes, MemoryType
  <1>3. x.run \in Runs /\ x.handle \in BOOLEAN /\ y \in ActType
    BY <1>2 DEF ActType
  <1>4. vm' \in [Holders -> VmType]
    BY <1>1, <1>2, VmTypes, ConstantTypes DEF BrokerTypes
  <1>5. m \in MemoryType
    BY <1>2, <1>3, MemoryFields DEF WarmType
  <1>6. n \in MemoryType
    BY <1>2, <1>3, <1>5, ActivationType, MemoryFields
  <1>7. o \in MemoryType
    BY <1>2, <1>3, MemoryFields
  <1>8. CASE Reserve(b, a, r, FALSE)
    <2>1. mem' = [mem EXCEPT ![b] = n]
      BY <1>1, <1>8 DEF BrokerTypes
    <2>2. mem' \in [Brokers -> MemoryType]
      BY <1>6, <2>1, MemoryStep
    <2>3. row' \in [Holders -> RowType]
      BY <1>1, <1>2, <1>8, ReservedType
    <2> QED BY <1>1, <1>4, <1>8, <2>2, <2>3 DEF BrokerTypes
  <1>9. CASE ~Reserve(b, a, r, FALSE)
    BY <1>1, <1>9, <1>7, MemoryStep, <1>4 DEF BrokerTypes
  <1> QED BY <1>8, <1>9

\* Types of the beginning of an operation.
LEMMA EnterTypes ==
    ASSUME BrokerTypes, NEW b \in Brokers, NEW r \in Runs, Execute(b, r) \/ BeginFork(b, r)
    PROVE  BrokerTypes'
  <1>1. \A a \in Runs, k \in {"exec", "fork"} : EnterMaterialize(b, a, r, k) =>
            row' \in [Holders -> RowType] /\ flow' \in [Holders -> FlowType]
    <2> SUFFICES ASSUME NEW a \in Runs, NEW k \in {"exec", "fork"}, EnterMaterialize(b, a, r, k)
                 PROVE  row' \in [Holders -> RowType] /\ flow' \in [Holders -> FlowType]
      OBVIOUS
    <2>1. "materializing" \in RowState /\ "exec" \in OpenPhases /\ "admit" \in OpenPhases
      BY ThePhases DEF RowState, LiveActivation
    <2>2. a \in Holders /\ r \in Holders
      BY ConstantTypes
    <2>3. row' \in [Holders -> RowType]
      BY <2>1, <2>2, SetStateType DEF EnterMaterialize, BrokerTypes
    <2>4. flow' \in [Holders -> FlowType]
      BY <2>1, <2>2, FlowStep DEF EnterMaterialize
    <2> QED BY <2>3, <2>4
  <1>2. CASE Execute(b, r)
    BY <1>1, <1>2 DEF Execute, BrokerTypes, OpType
  <1>3. CASE BeginFork(b, r)
    BY <1>1, <1>3 DEF BeginFork, BrokerTypes
  <1> QED BY <1>2, <1>3
\* A call in an open phase has a replica, a kind and a holder.
LEMMA FlowAt ==
    ASSUME BrokerTypes, NEW x \in Holders, flow[x].phase \in OpenPhases
    PROVE  /\ flow[x] # NoFlow /\ flow[x].id \in Holders /\ flow[x].by \in Brokers
           /\ flow[x].kind \in {"exec", "fork", "terminal", "environment"}
  BY DEF BrokerTypes, FlowType, NoFlow, OpenPhases


\* Types of what AcquireAdmission writes.
LEMMA AcquireAdmissionTypes ==
    ASSUME BrokerTypes, NEW b \in Brokers, NEW x \in Holders, AcquireAdmission(b, x)
    PROVE  BrokerTypes'
  <1> DEFINE h == flow[x].id
  <1>1. h \in Holders /\ flow[x] # NoFlow /\ mem[b] \in MemoryType
    BY ThePhases, FlowAt DEF AcquireAdmission, BrokerTypes
  <1>2. flow' \in [Holders -> FlowType]
    BY <1>1, FlowStep, ThePhases DEF AcquireAdmission
  <1>3. mem[b].admitted \cup {h} \in SUBSET Holders /\ Append(mem[b].waiters, h) \in Seq(Holders)
    BY <1>1 DEF MemoryType
  <1>4. \/ mem' = [mem EXCEPT ![b] = [mem[b] EXCEPT !.admitted = mem[b].admitted \cup {h}]]
        \/ mem' = [mem EXCEPT ![b] = [mem[b] EXCEPT !.waiters = Append(mem[b].waiters, h)]]
    BY DEF AcquireAdmission, BrokerTypes
  <1>5. mem' \in [Brokers -> MemoryType]
    <2>1. /\ [mem[b] EXCEPT !.admitted = mem[b].admitted \cup {h}] \in MemoryType
          /\ [mem[b] EXCEPT !.waiters = Append(mem[b].waiters, h)] \in MemoryType
      BY <1>1, <1>3, MemoryFields
    <2> QED BY <1>4, <2>1, MemoryStep
  <1> QED BY <1>2, <1>5 DEF AcquireAdmission, BrokerTypes

\* Types of a refused admission.
LEMMA RefuseTypes ==
    ASSUME BrokerTypes, NEW b \in Brokers, NEW x \in Holders, RefuseAdmission(b, x)
    PROVE  flow' \in [Holders -> FlowType] /\ op' \in [Runs -> OpType]
  BY FlowStep, SettleOperationType DEF RefuseAdmission, BrokerTypes

\* GivenUp stays within its type.
LEMMA GivenUpType == \A x : GivenUp(x) \in RowState
  BY DEF GivenUp, RowState, LiveActivation

\* Types of what EvictForAdmission writes.
LEMMA EvictForAdmissionTypes ==
    ASSUME BrokerTypes, NEW b \in Brokers, NEW x \in Holders, EvictForAdmission(b, x)
    PROVE  BrokerTypes'
  <1> DEFINE other == IF x \in Runs THEN row ELSE SetState(b, x, GivenUp(x))
  <1>1. other \in [Holders -> RowType]
    BY SetStateType, GivenUpType DEF BrokerTypes
  <1>2. PICK w \in Workspaces, ok \in BOOLEAN :
           /\ DiscardWarm(b, w, ok, other)
           /\ IF ok THEN UNCHANGED <<flow, op>> ELSE RefuseAdmission(b, x)
    BY DEF EvictForAdmission, Evictable, Warm
  <1>3. /\ vm' \in [Holders -> VmType] /\ mem' \in [Brokers -> MemoryType]
        /\ row' \in [Holders -> RowType] /\ faults' \in Nat
        /\ UNCHANGED <<inst, up, ran, run, closing, withdraw>>
    BY <1>1, <1>2, DiscardWarmTypes
  <1>4. flow' \in [Holders -> FlowType] /\ op' \in [Runs -> OpType]
    BY <1>2, RefuseTypes DEF BrokerTypes
  <1> QED BY <1>3, <1>4 DEF BrokerTypes

\* Types of the end of a wait.
LEMMA WaitTypes ==
    ASSUME BrokerTypes, NEW b \in Brokers, NEW x \in Holders,
           WaitEnds(b, x) \/ (x \in Runs /\ AbortWait(b, x))
    PROVE  BrokerTypes'
  <1>1. CASE WaitEnds(b, x)
    <2>1. flow[x] # NoFlow
      BY <1>1, ThePhases, FlowAt DEF WaitEnds
    <2>2. flow' \in [Holders -> FlowType] /\ op' \in [Runs -> OpType]
      BY SMTT(20), <1>1, <2>1, FlowStep, ThePhases, RefuseTypes DEF WaitEnds, BrokerTypes
    <2> QED BY <1>1, <2>2 DEF WaitEnds, BrokerTypes
  <1>2. CASE x \in Runs /\ AbortWait(b, x)
    BY <1>2, RefuseTypes, CancelAdmissionWaiterType, MemoryStep DEF AbortWait, BrokerTypes
  <1> QED BY <1>1, <1>2

\* Types of what FailMaterialize writes.
LEMMA FailMaterializeTypes ==
    ASSUME BrokerTypes, NEW b \in Brokers, NEW r \in Runs, NEW m \in MemoryType,
           NEW v \in [Holders -> VmType], NEW why \in {"failed", "cancelled"},
           flow[r].phase \in OpenPhases,
           FailMaterialize(b, r, m, v, why)
    PROVE  /\ mem' \in [Brokers -> MemoryType] /\ vm' \in [Holders -> VmType]
           /\ row' \in [Holders -> RowType] /\ op' \in [Runs -> OpType]
           /\ flow' \in [Holders -> FlowType]
  BY FlowAt, ConstantTypes, SetStateType, SettleOperationType, FlowStep, MemoryStep DEF RowState,
     LiveActivation, FailMaterialize, BrokerTypes

\* Types of what Provide writes.
LEMMA ProvideTypes ==
    ASSUME BrokerTypes, FlowsOK, NEW b \in Brokers, NEW r \in Runs, Provide(b, r)
    PROVE  BrokerTypes'
  <1> DEFINE a == flow[r].id
             m == mem[b]
             bare == [m EXCEPT !.act[a].handle = FALSE]
             x == m.act[a]
             y == [x EXCEPT !.handle = FALSE]
  <1>1. /\ r \in Holders /\ flow[r] # NoFlow /\ a \in Holders /\ m \in MemoryType
        /\ flow[r].phase \in OpenPhases
    BY ThePhases, FlowAt, ConstantTypes DEF Provide, BrokerTypes
  <1>2. a \in Runs
    BY <1>1 DEF FlowsOK, FlowOK
  <1>3. x \in ActType
    BY <1>1, <1>2 DEF MemoryType
  <1>4. x.handle => bare \in MemoryType /\ bare = [m EXCEPT !.act[a] = y]
    <2> SUFFICES ASSUME x.handle PROVE bare \in MemoryType /\ bare = [m EXCEPT !.act[a] = y]
      OBVIOUS
    <2>1. y \in ActType
      <3>1. x # NoAct
        BY DEF NoAct
      <3> QED BY <1>3, <3>1 DEF ActType
    <2>2. bare = [m EXCEPT !.act[a] = y]
      BY <1>1, <1>2 DEF MemoryType
    <2> QED BY <1>1, <1>2, <2>1, <2>2, MemoryFields
  <1>5. UNCHANGED <<inst, up, ran, run, closing, withdraw>>
    BY DEF Provide
  <1>6. CASE /\ ~StillMine(b, r) /\ FailMaterialize(b, r, ReleaseAdmission(m, a), vm, "cancelled")
             /\ UNCHANGED faults
    BY <1>1, ReleaseAdmissionType, <1>5, <1>6, FailMaterializeTypes DEF BrokerTypes
  <1>7. CASE flow' = [flow EXCEPT ![r].phase = "creating"] /\ UNCHANGED <<row, op, mem, vm, faults>>
    BY <1>1, <1>5, <1>7, FlowStep, ThePhases DEF BrokerTypes
  <1>8. CASE /\ StillMine(b, r) /\ m.act[a].handle /\ Rebindable(b, a)
             /\ \E ok \in BOOLEAN :
                    /\ Call(ok)
                    /\ vm' = IF ok THEN Rebound(vm, a, r) ELSE [vm EXCEPT ![a] = NoVm]
                    /\ mem' = IF ok THEN mem ELSE [mem EXCEPT ![b] = bare]
                    /\ flow' = [flow EXCEPT ![r].phase = IF ok THEN "created" ELSE "creating"]
             /\ UNCHANGED <<row, op>>
    <2>1. PICK ok \in BOOLEAN :
                    /\ Call(ok)
                    /\ vm' = IF ok THEN Rebound(vm, a, r) ELSE [vm EXCEPT ![a] = NoVm]
                    /\ mem' = IF ok THEN mem ELSE [mem EXCEPT ![b] = bare]
                    /\ flow' = [flow EXCEPT ![r].phase = IF ok THEN "created" ELSE "creating"]
      BY <1>8
    <2>2. vm' \in [Holders -> VmType]
      BY <1>1, <2>1, VmTypes DEF BrokerTypes
    <2>3. mem' \in [Brokers -> MemoryType]
      BY <1>4, <1>8, <2>1, MemoryStep DEF BrokerTypes
    <2>4. flow' \in [Holders -> FlowType]
      BY <1>1, <2>1, FlowStep, ThePhases
    <2>5. faults' \in Nat
      BY <2>1, CallType
    <2> QED BY <1>5, <1>8, <2>2, <2>3, <2>4, <2>5 DEF BrokerTypes
  <1>9. CASE /\ StillMine(b, r) /\ m.act[a].handle /\ ~Rebindable(b, a)
             /\ \E ok \in BOOLEAN :
                    /\ Call(ok)
                    /\ FailMaterialize(b, r, IF ok THEN ReleaseAdmission(bare, a) ELSE m,
                                       Destroyed(vm, a, ok), "failed")
    BY <1>9, <1>1, VmTypes, <1>4, ReleaseAdmissionType, CallType, FailMaterializeTypes, <1>5 DEF
       BrokerTypes
  <1> QED BY <1>6, <1>7, <1>8, <1>9 DEF Provide
\* Types of what CreateReturns writes.
LEMMA CreateReturnsTypes ==
    ASSUME BrokerTypes, NEW b \in Brokers, NEW x \in Holders, CreateReturns(b, x)
    PROVE  BrokerTypes'
  BY ThePhases, FlowAt, FlowStep, NewVmType DEF CreateReturns, BrokerTypes

\* Types of what CreateFails writes.
LEMMA CreateFailsTypes ==
    ASSUME BrokerTypes, NEW b \in Brokers, NEW r \in Runs, CreateFails(b, r)
    PROVE  BrokerTypes'
  BY ThePhases, ReleaseAdmissionType, FailMaterializeTypes, CallType DEF CreateFails, BrokerTypes

\* Types of what RecordActive writes.
LEMMA RecordActiveTypes ==
    ASSUME BrokerTypes, FlowsOK, NEW b \in Brokers, NEW r \in Runs, RecordActive(b, r)
    PROVE  BrokerTypes'
  <1> DEFINE a == flow[r].id
             x == mem[b].act[a]
             y == [x EXCEPT !.handle = TRUE, !.mat = TRUE]
             held == [mem[b] EXCEPT !.act[a].handle = TRUE, !.act[a].mat = TRUE]
  <1>1. /\ r \in Holders /\ flow[r] # NoFlow /\ a \in Holders /\ mem[b] \in MemoryType
        /\ flow[r].phase \in OpenPhases
    BY ThePhases, FlowAt, ConstantTypes DEF RecordActive, BrokerTypes
  <1>2. a \in Runs
    BY <1>1 DEF FlowsOK, FlowOK
  <1>3. x \in ActType
    BY <1>1, <1>2 DEF MemoryType
  <1>4. StillMine(b, r) => held \in MemoryType
    <2> SUFFICES ASSUME StillMine(b, r) PROVE held \in MemoryType
      OBVIOUS
    <2>1. x # NoAct
      BY ConstantTypes DEF StillMine, NoAct
    <2>2. y \in ActType
      BY <1>3, <2>1 DEF ActType
    <2>3. held = [mem[b] EXCEPT !.act[a] = y]
      BY <1>1, <1>2, <1>3, <2>1 DEF MemoryType, ActType
    <2> QED BY <1>1, <1>2, <2>2, <2>3, MemoryFields
  <1>5. UNCHANGED <<inst, up, ran, run, closing, withdraw>>
    BY DEF RecordActive
  <1>6. CASE \E ok \in BOOLEAN :
                 /\ ~StillMine(b, r) \/ flow[r].kind = "exec"
                 /\ Call(ok)
                 /\ FailMaterialize(b, r, ReleaseAdmission(mem[b], a),
                                    Discarded(vm, a, ok), "cancelled")
    BY <1>6, <1>1, ReleaseAdmissionType, VmTypes, FailMaterializeTypes, CallType, <1>5 DEF
       BrokerTypes
  <1>7. CASE /\ StillMine(b, r) /\ CanSet(b, a)
             /\ mem' = [mem EXCEPT ![b] = held]
             /\ row' = SetState(b, a, "active")
             /\ flow' = [flow EXCEPT ![r].phase = "exec"]
             /\ UNCHANGED <<op, vm, faults>>
    BY <1>4, <1>7, MemoryStep, <1>1, SetStateType, FlowStep, ThePhases, <1>5 DEF RowState,
       LiveActivation, BrokerTypes
  <1>8. CASE /\ StillMine(b, r) /\ ~CanSet(b, a)
             /\ FailMaterialize(b, r, ReleaseAdmission(held, a), vm, "failed")
             /\ UNCHANGED faults
    BY <1>4, <1>8, ReleaseAdmissionType, <1>1, FailMaterializeTypes, <1>5 DEF BrokerTypes
  <1> QED BY <1>6, <1>7, <1>8 DEF RecordActive

\* Types of the operations in the guest.
LEMMA GuestTypes ==
    ASSUME BrokerTypes, NEW b \in Brokers, NEW r \in Runs,
           Exec(b, r) \/ Capture(b, r) \/ ForkWorkspace(b, r)
    PROVE  BrokerTypes'
  <1> DEFINE a == flow[r].id
  <1>1. CASE Exec(b, r)
    <2>1. r \in Holders /\ flow[r] # NoFlow /\ a \in Holders
      BY <1>1, ThePhases, FlowAt, ConstantTypes DEF Exec
    <2>2. PICK ok \in BOOLEAN :
              /\ Call(ok)
              /\ vm' = IF ((Owned(b, a, r) /\ vm[a].state = "running") /\ ok) \/ ~Owned(b, a, r)
                       THEN vm ELSE [vm EXCEPT ![a] = NoVm]
              /\ op' = SettleOperation(b, r, IF (Owned(b, a, r) /\ vm[a].state = "running") /\ ok
                                             THEN "succeeded" ELSE "failed")
              /\ ran' = IF Owned(b, a, r) /\ vm[a].state = "running" THEN [ran EXCEPT ![r] = @ + 1] ELSE ran
      BY <1>1 DEF Exec
    <2>3. vm' \in [Holders -> VmType]
      BY <2>1, <2>2, VmTypes DEF BrokerTypes
    <2>4. op' \in [Runs -> OpType]
      BY <2>2, SettleOperationType
    <2>5. ran' \in [Runs -> Nat]
      BY <2>2 DEF BrokerTypes
    <2>6. faults' \in Nat
      BY <2>2, CallType
    <2>7. flow' \in [Holders -> FlowType]
      BY <1>1, <2>1, FlowStep DEF Exec
    <2> QED BY <1>1, <2>3, <2>4, <2>5, <2>6, <2>7 DEF Exec, BrokerTypes
  <1>2. CASE Capture(b, r)
    <2>1. PICK c \in Runs, ok \in BOOLEAN :
              /\ Call(ok)
              /\ vm' = IF ok THEN [vm EXCEPT ![c].state = "idle"] ELSE [vm EXCEPT ![c] = NoVm]
      BY <1>2 DEF Capture
    <2>2. vm' \in [Holders -> VmType]
      BY <2>1, VmTypes, ConstantTypes DEF BrokerTypes
    <2>3. faults' \in Nat
      BY <2>1, CallType
    <2> QED BY <1>2, <2>2, <2>3 DEF Capture, BrokerTypes
  <1>3. CASE ForkWorkspace(b, r)
    <2>1. r \in Holders /\ flow[r] # NoFlow /\ a \in Holders
      BY <1>3, ThePhases, FlowAt, ConstantTypes DEF ForkWorkspace
    <2>2. PICK ok \in BOOLEAN :
              /\ Call(ok)
              /\ vm' = IF ~Owned(b, a, r) THEN vm
                       ELSE IF ok THEN Rebound(vm, a, r) ELSE [vm EXCEPT ![a] = NoVm]
      BY <1>3 DEF ForkWorkspace
    <2>3. vm' \in [Holders -> VmType]
      BY <2>1, <2>2, VmTypes DEF BrokerTypes
    <2>4. faults' \in Nat
      BY <2>2, CallType
    <2>5. flow' \in [Holders -> FlowType]
      BY <1>3, <2>1, FlowStep DEF ForkWorkspace
    <2> QED BY <1>3, <2>3, <2>4, <2>5 DEF ForkWorkspace, BrokerTypes
  <1> QED BY <1>1, <1>2, <1>3

\* Types of what Release writes.
LEMMA ReleaseTypes ==
    ASSUME BrokerTypes, NEW b \in Brokers, NEW r \in Runs, NEW how \in Dispositions, Release(b, r, how)
    PROVE  BrokerTypes'
  <1>1. PICK a \in Runs :
            /\ mem[b].act[a].run = r
            /\ mem' = [mem EXCEPT ![b] = Revoke(mem[b], a)]
            /\ closing' = [closing EXCEPT ![r] =
                          [how |-> how, by |-> b, id |-> a,
                           handle |-> mem[b].act[a].handle /\ ~Materializing(r)]]
    BY DEF Release
  <1>2. mem[b] \in MemoryType
    BY DEF BrokerTypes
  <1>3. mem' \in [Brokers -> MemoryType]
    BY <1>1, <1>2, RevokeType, MemoryStep
  <1>4. (mem[b].act[a].handle /\ ~Materializing(r)) \in BOOLEAN
    OBVIOUS
  <1>5. [how |-> how, by |-> b, id |-> a,
         handle |-> mem[b].act[a].handle /\ ~Materializing(r)] \in CloseType
    BY <1>4, ConstantTypes DEF CloseType
  <1>6. closing' \in [Runs -> CloseType]
    BY <1>1, <1>5 DEF BrokerTypes
  <1> QED BY <1>3, <1>6 DEF Release, BrokerTypes
\* Types of RestoreSuspended.
LEMMA RestoreTypes ==
    ASSUME BrokerTypes, NEW b \in Brokers, NEW w \in Workspaces, NEW m \in MemoryType,
           NEW v \in [Holders -> VmType], NEW handle \in BOOLEAN, NEW ok \in BOOLEAN,
           m.susp[w] # NoWarm, RestoreSuspended(b, w, m, v, handle, ok)
    PROVE  /\ mem' \in [Brokers -> MemoryType] /\ vm' \in [Holders -> VmType]
           /\ row' \in [Holders -> RowType]
  <1> DEFINE s == m.susp[w]
             idle == handle /\ v[s.id].state = "idle" /\ v[s.id].prov = b
             kept == idle /\ ok
             back == Reserve(b, s.id, s.run, FALSE)
             x == [run |-> s.run, handle |-> kept, mat |-> kept]
             n == [m EXCEPT !.susp[w] = NoWarm]
             o == [n EXCEPT !.act[s.id] = x]
  <1>1. s.id \in Runs /\ s.run \in Runs /\ s.id \in Holders
    BY ConstantTypes DEF MemoryType, WarmType
  <1>2. kept \in BOOLEAN
    OBVIOUS
  <1>3. n \in MemoryType
    BY MemoryFields, NothingTypes
  <1>4. o \in MemoryType
    BY <1>1, <1>2, <1>3, MemoryFields DEF ActType
  <1>5. ReleaseAdmission(n, s.id) \in MemoryType
    BY <1>3, ReleaseAdmissionType
  <1>6. mem' = [mem EXCEPT ![b] = IF back THEN o ELSE ReleaseAdmission(n, s.id)]
    BY DEF MemoryType, RestoreSuspended
  <1>7. mem' \in [Brokers -> MemoryType]
    BY <1>4, <1>5, <1>6, MemoryStep
  <1>8. vm' \in [Holders -> VmType]
    BY <1>1, VmTypes DEF RestoreSuspended
  <1>9. row' \in [Holders -> RowType]
    BY <1>1, ReservedType DEF RestoreSuspended, BrokerTypes
  <1> QED BY <1>7, <1>8, <1>9

\* Types of EnforceWarmLimit.
LEMMA EnforceTypes ==
    ASSUME NEW b, NEW m \in MemoryType, NEW v \in [Holders -> VmType], NEW w,
           NEW e \in EnforceWarmLimit(b, m, v, w)
    PROVE  /\ e.m \in MemoryType /\ e.v \in [Holders -> VmType]
           /\ \/ e = [m |-> m, v |-> v, out |-> {}]
              \/ \E u \in Workspaces :
                    /\ u # w /\ m.warm[u].id \in Runs
                    /\ e = [m |-> ReleaseAdmission([m EXCEPT !.warm[u] = NoWarm], m.warm[u].id),
                            v |-> [v EXCEPT ![m.warm[u].id] = NoVm], out |-> {m.warm[u].id}]
  <1>1. CASE e = [m |-> m, v |-> v, out |-> {}]
    BY <1>1
  <1>2. CASE e # [m |-> m, v |-> v, out |-> {}]
    <2>1. PICK u \in Workspaces \ {w} :
             /\ m.warm[u].keep = "ephemeral"
             /\ e = [m |-> ReleaseAdmission([m EXCEPT !.warm[u] = NoWarm], m.warm[u].id),
                     v |-> [v EXCEPT ![m.warm[u].id] = NoVm], out |-> {m.warm[u].id}]
      BY <1>2 DEF EnforceWarmLimit
    <2>2. m.warm[u].id \in Runs
      BY <2>1 DEF MemoryType, NoWarm, WarmType
    <2>3. [m EXCEPT !.warm[u] = NoWarm] \in MemoryType
      BY MemoryFields, NothingTypes
    <2>4. ReleaseAdmission([m EXCEPT !.warm[u] = NoWarm], m.warm[u].id) \in MemoryType
      BY <2>3, ReleaseAdmissionType
    <2>5. [v EXCEPT ![m.warm[u].id] = NoVm] \in [Holders -> VmType]
      BY <2>2, VmTypes, ConstantTypes
    <2> QED BY <2>1, <2>2, <2>4, <2>5
  <1> QED BY <1>1, <1>2

\* The two outcomes of EnforceWarmLimit.
Untouched(m, v) == [m |-> m, v |-> v, out |-> {}]
Evicted(m, v, u) ==
    [m |-> ReleaseAdmission([m EXCEPT !.warm[u] = NoWarm], m.warm[u].id),
     v |-> [v EXCEPT ![m.warm[u].id] = NoVm], out |-> {m.warm[u].id}]

\* EnforceWarmLimit leaves all as it is or evicts one warm Sandbox.
LEMMA EnforceCases ==
    ASSUME NEW b, NEW m \in MemoryType, NEW v, NEW w, NEW e \in EnforceWarmLimit(b, m, v, w)
    PROVE  \/ e = Untouched(m, v)
           \/ \E u \in Workspaces : m.warm[u].id \in Runs /\ e = Evicted(m, v, u)
  <1> SUFFICES ASSUME e # Untouched(m, v)
               PROVE  \E u \in Workspaces : m.warm[u].id \in Runs /\ e = Evicted(m, v, u)
    OBVIOUS
  <1>1. \E u \in Workspaces : m.warm[u].keep = "ephemeral" /\ e = Evicted(m, v, u)
    BY DEF EnforceWarmLimit, Untouched, Evicted
  <1>2. PICK u \in Workspaces : m.warm[u].keep = "ephemeral" /\ e = Evicted(m, v, u)
    BY <1>1
  <1>3. m.warm[u] \in WarmType /\ m.warm[u] # NoWarm
    BY <1>2 DEF MemoryType, NoWarm
  <1>4. m.warm[u].id \in Runs
    BY <1>3 DEF WarmType
  <1> QED BY <1>2, <1>4

\* A release under way has an activation of its own.
LEMMA ClosingAt ==
    ASSUME BrokerTypes, NEW r \in Runs, NEW b \in Brokers, closing[r].by = b
    PROVE  /\ closing[r] # NoClose /\ closing[r].id \in Runs /\ closing[r].id \in Holders
           /\ closing[r].how \in {"ephemeral", "persistent", "destroy"}
           /\ closing[r].handle \in BOOLEAN
  BY ConstantTypes DEF BrokerTypes, CloseType, NoClose

\* Types of what FinishRelease writes.
LEMMA FinishReleaseTypes ==
    ASSUME BrokerTypes, NEW b \in Brokers, NEW r \in Runs, FinishRelease(b, r)
    PROVE  BrokerTypes'
  <1> DEFINE c == closing[r]
             w == WorkspaceOf[r]
             retained == c.how # "destroy" /\ c.handle /\ Owned(b, c.id, r) /\ vm[c.id].state = "idle"
             dropped == c.how # "destroy" /\ c.handle /\ ~retained
             freed == IF dropped THEN ReleaseAdmission(mem[b], c.id) ELSE mem[b]
             gone(ok) == IF retained \/ ~c.handle THEN vm ELSE Discarded(vm, c.id, ok)
             kept == [id |-> c.id, run |-> r, keep |-> c.how]
  <1>1. /\ c # NoClose /\ c.id \in Runs /\ c.id \in Holders /\ c.handle \in BOOLEAN
        /\ c.how \in {"ephemeral", "persistent", "destroy"} /\ w \in Workspaces
    BY ClosingAt, ConstantTypes DEF FinishRelease
  <1>2. freed \in MemoryType /\ mem[b] \in MemoryType
    BY ReleaseAdmissionType DEF BrokerTypes
  <1>3. \A ok \in BOOLEAN : gone(ok) \in [Holders -> VmType]
    BY <1>1, VmTypes DEF BrokerTypes
  <1>4. closing' \in [Runs -> CloseType] /\ UNCHANGED <<inst, up, op, ran, run, flow, withdraw>>
    BY NothingTypes DEF FinishRelease, BrokerTypes
  <1>5. PICK ok \in BOOLEAN :
              /\ Call(ok)
              /\ \/ /\ freed.susp[w] # NoWarm
                    /\ RestoreSuspended(b, w, freed, gone(ok), c.handle, ok)
                 \/ /\ freed.susp[w] = NoWarm /\ retained /\ ok
                    /\ \E e \in EnforceWarmLimit(b, [freed EXCEPT !.warm[w] = kept], vm, w) :
                          /\ mem' = [mem EXCEPT ![b] = e.m]
                          /\ vm' = e.v
                          /\ row' = [h \in Holders |->
                                        IF h = c.id THEN SetState(b, h, "warm")[h]
                                        ELSE IF h \in e.out THEN SetState(b, h, "released")[h]
                                        ELSE row[h]]
                 \/ /\ freed.susp[w] = NoWarm /\ ~retained
                    /\ IF c.how = "destroy" /\ c.handle /\ ~ok
                       THEN UNCHANGED <<mem, row, vm>>
                       ELSE /\ mem' = [mem EXCEPT ![b] = ReleaseAdmission(freed, c.id)]
                            /\ row' = SetState(b, c.id, "released")
                            /\ vm' = IF ~c.handle /\ CanSet(b, c.id) THEN Discarded(vm, c.id, FALSE)
                                     ELSE gone(ok)
    BY DEF FinishRelease
  <1>6. faults' \in Nat
    BY <1>5, CallType
  <1>7. "warm" \in RowState /\ "released" \in RowState
    BY DEF RowState, LiveActivation
  <1>8. /\ mem' \in [Brokers -> MemoryType] /\ vm' \in [Holders -> VmType]
        /\ row' \in [Holders -> RowType]
    <2> HIDE DEF c, w, retained, dropped, freed, gone, kept
    <2>1. CASE /\ freed.susp[w] # NoWarm
               /\ RestoreSuspended(b, w, freed, gone(ok), c.handle, ok)
      BY <1>3, <1>1, <1>2, <2>1, RestoreTypes
    <2>2. CASE /\ freed.susp[w] = NoWarm /\ retained /\ ok
               /\ \E e \in EnforceWarmLimit(b, [freed EXCEPT !.warm[w] = kept], vm, w) :
                          /\ mem' = [mem EXCEPT ![b] = e.m]
                          /\ vm' = e.v
                          /\ row' = [h \in Holders |->
                                        IF h = c.id THEN SetState(b, h, "warm")[h]
                                        ELSE IF h \in e.out THEN SetState(b, h, "released")[h]
                                        ELSE row[h]]
      <3>1. kept \in WarmType
        BY <1>1 DEF WarmType, kept
      <3>2. [freed EXCEPT !.warm[w] = kept] \in MemoryType /\ vm \in [Holders -> VmType]
        BY <1>1, <1>2, <3>1, MemoryFields DEF BrokerTypes
      <3>3. PICK e \in EnforceWarmLimit(b, [freed EXCEPT !.warm[w] = kept], vm, w) :
                          /\ mem' = [mem EXCEPT ![b] = e.m]
                          /\ vm' = e.v
                          /\ row' = [h \in Holders |->
                                        IF h = c.id THEN SetState(b, h, "warm")[h]
                                        ELSE IF h \in e.out THEN SetState(b, h, "released")[h]
                                        ELSE row[h]]
        BY <2>2
      <3>4. e.m \in MemoryType /\ e.v \in [Holders -> VmType]
        BY <3>2, EnforceTypes
      <3>5. mem' \in [Brokers -> MemoryType]
        BY <3>3, <3>4, MemoryStep
      <3>6. row' \in [Holders -> RowType]
        <4>1. \A h \in Holders : /\ SetState(b, h, "warm")[h] \in RowType
                                 /\ SetState(b, h, "released")[h] \in RowType /\ row[h] \in RowType
          <5> SUFFICES ASSUME NEW h \in Holders
                       PROVE  /\ SetState(b, h, "warm")[h] \in RowType
                              /\ SetState(b, h, "released")[h] \in RowType /\ row[h] \in RowType
            OBVIOUS
          <5>1. /\ SetState(b, h, "warm") \in [Holders -> RowType]
                /\ SetState(b, h, "released") \in [Holders -> RowType]
            BY <1>7, SetStateType
          <5>2. row \in [Holders -> RowType]
            BY DEF BrokerTypes
          <5> QED BY <5>1, <5>2
        <4> QED BY <3>3, <4>1
      <3> QED BY <3>3, <3>4, <3>5, <3>6
    <2>3. CASE UNCHANGED <<mem, row, vm>>
      BY <2>3 DEF BrokerTypes
    <2>4. CASE /\ mem' = [mem EXCEPT ![b] = ReleaseAdmission(freed, c.id)]
               /\ row' = SetState(b, c.id, "released")
               /\ vm' = IF ~c.handle /\ CanSet(b, c.id) THEN Discarded(vm, c.id, FALSE)
                        ELSE gone(ok)
      BY <1>2, <2>4, ReleaseAdmissionType, MemoryStep, <1>1, <1>7, SetStateType, <1>3, VmTypes DEF
         BrokerTypes
    <2> QED BY <1>5, <2>1, <2>2, <2>3, <2>4
  <1> QED BY <1>4, <1>6, <1>8 DEF BrokerTypes

\* A row that is claimed stays a row.
LEMMA ClaimedType ==
    ASSUME BrokerTypes, NEW h \in Holders, NEW s \in RowState, NEW b \in Brokers \cup {None}
    PROVE  /\ [row EXCEPT ![h].state = s, ![h].owner = b] \in [Holders -> RowType]
           /\ [row EXCEPT ![h].state = s, ![h].owner = b] =
                 [row EXCEPT ![h] = [row[h] EXCEPT !.state = s, !.owner = b]]
  BY DEF BrokerTypes, RowType

\* Types of the reapers.
LEMMA ReapTypes ==
    ASSUME BrokerTypes, NEW b \in Brokers, NEW h \in Holders, ClaimOrphaned(b, h) \/ CleanUp(b, h)
    PROVE  BrokerTypes'
  <1>1. mem[b] \in MemoryType /\ mem[b].reaping \subseteq Holders
        /\ mem[b].open \subseteq Holders /\ mem[b].ptys \subseteq Holders
    BY DEF BrokerTypes, MemoryType
  <1>2. CASE ClaimOrphaned(b, h)
    <2> DEFINE m1 == [mem[b] EXCEPT !.reaping = mem[b].reaping \cup {h}]
               m2 == [m1 EXCEPT !.open = IF h \in Envs THEN mem[b].open \ {h} ELSE mem[b].open]
               m3 == [m2 EXCEPT !.ptys = mem[b].ptys \ {h}]
    <2>1. m1 \in MemoryType
      BY <1>1, MemoryFields
    <2>2. m2 \in MemoryType
      BY <1>1, <2>1, MemoryFields
    <2>3. m3 \in MemoryType
      BY <1>1, <2>2, MemoryFields
    <2>4. mem' = [mem EXCEPT ![b] = m3]
      BY <1>2 DEF BrokerTypes, ClaimOrphaned, MemoryType
    <2>5. mem' \in [Brokers -> MemoryType]
      BY <2>3, <2>4, MemoryStep
    <2>6. row' \in [Holders -> RowType]
      BY <1>2, ClaimedType DEF ClaimOrphaned, RowState, LiveActivation, LiveEnvironment
    <2> QED BY <1>2, <2>5, <2>6 DEF ClaimOrphaned, BrokerTypes
  <1>3. CASE CleanUp(b, h)
    <2> DEFINE m == [mem[b] EXCEPT !.reaping = mem[b].reaping \ {h}]
    <2>1. PICK ok \in BOOLEAN :
              /\ Call(ok)
              /\ vm' = Destroyed(vm, h, ok /\ Destroyable(b, h))
              /\ mem' = [mem EXCEPT ![b] = IF (ok /\ Destroyable(b, h)) /\ h \in Envs
                                           THEN ReleaseAdmission(m, h) ELSE m]
              /\ row' = SetState(b, h, IF ~(ok /\ Destroyable(b, h)) THEN "unknown"
                                       ELSE IF h \in Envs THEN "failed" ELSE "released")
      BY <1>3 DEF CleanUp
    <2>2. m \in MemoryType
      BY <1>1, MemoryFields
    <2>3. ReleaseAdmission(m, h) \in MemoryType
      BY <2>2, ReleaseAdmissionType
    <2>4. mem' \in [Brokers -> MemoryType]
      BY <2>1, <2>2, <2>3, MemoryStep
    <2>5. (ok /\ Destroyable(b, h)) \in BOOLEAN
      OBVIOUS
    <2>6. vm' \in [Holders -> VmType]
      BY <2>1, <2>5, VmTypes DEF BrokerTypes
    <2>7. row' \in [Holders -> RowType]
      BY <2>1, SetStateType DEF RowState, LiveActivation
    <2>8. faults' \in Nat
      BY <2>1, CallType
    <2> QED BY <1>3, <2>4, <2>6, <2>7, <2>8 DEF CleanUp, BrokerTypes
  <1> QED BY <1>2, <1>3

\* Types of what StopUnknown writes.
LEMMA StopUnknownTypes ==
    ASSUME BrokerTypes, NEW b \in Brokers, NEW r \in Runs, StopUnknown(b, r)
    PROVE  BrokerTypes'
  <1>1. PICK a \in Runs : /\ vm' = [vm EXCEPT ![a] = NoVm]
                          /\ mem' = [mem EXCEPT ![b] = ReleaseAdmission(mem[b], a)]
    BY DEF StopUnknown
  <1>2. mem[b] \in MemoryType
    BY DEF BrokerTypes
  <1>3. mem' \in [Brokers -> MemoryType]
    BY <1>1, <1>2, ReleaseAdmissionType, MemoryStep
  <1>4. vm' \in [Holders -> VmType]
    BY <1>1, VmTypes, ConstantTypes DEF BrokerTypes
  <1> QED BY <1>3, <1>4 DEF StopUnknown, BrokerTypes

\* Types of TerminateAndConfirmAbsent.
LEMMA TerminateTypes ==
    ASSUME BrokerTypes, NEW b \in Brokers, NEW r \in Runs, TerminateAndConfirmAbsent(b, r)
    PROVE  BrokerTypes'
  <1> DEFINE w(a) == WorkspaceOf[a]
             m1(a) == IF mem[b].act[a].handle THEN Revoke(mem[b], a) ELSE mem[b]
             m2(a) == IF m1(a).warm[w(a)].id = a THEN [m1(a) EXCEPT !.warm[w(a)] = NoWarm] ELSE m1(a)
  <1>1. PICK a \in Runs, ok \in BOOLEAN :
            /\ Call(ok)
            /\ vm' = Destroyed(vm, a, ok)
            /\ mem' = [mem EXCEPT ![b] = IF ok THEN ReleaseAdmission(m2(a), a) ELSE m2(a)]
            /\ row' = IF ~ok THEN row ELSE
                       [h \in Holders |->
                          IF h = a /\ row[a].run = r /\ Live(a) /\ row[a].state # "unknown"
                          THEN [row[h] EXCEPT !.state = "released"]
                          ELSE IF h \in Terminals /\ row[h].owner = b /\ Live(h)
                          THEN [row[h] EXCEPT !.state = "unknown"] ELSE row[h]]
    BY DEF TerminateAndConfirmAbsent
  <1>2. mem[b] \in MemoryType /\ a \in Holders /\ w(a) \in Workspaces
    BY ConstantTypes DEF BrokerTypes
  <1>3. m1(a) \in MemoryType
    BY <1>2, RevokeType
  <1>4. m2(a) \in MemoryType
    BY <1>2, <1>3, MemoryFields, NothingTypes
  <1>5. ReleaseAdmission(m2(a), a) \in MemoryType
    BY <1>4, ReleaseAdmissionType
  <1>6. mem' \in [Brokers -> MemoryType]
    <2> HIDE DEF m2
    <2> QED BY <1>1, <1>4, <1>5, MemoryStep
  <1>7. vm' \in [Holders -> VmType]
    BY <1>1, <1>2, VmTypes DEF BrokerTypes
  <1>8. row' \in [Holders -> RowType]
    BY <1>1 DEF BrokerTypes, RowType, RowState, LiveActivation
  <1>9. faults' \in Nat
    BY <1>1, CallType
  <1> QED BY <1>6, <1>7, <1>8, <1>9 DEF TerminateAndConfirmAbsent, BrokerTypes

\* Types of what ClaimTerminalRun writes.
LEMMA ClaimTerminalRunTypes ==
    ASSUME BrokerTypes, NEW b \in Brokers, NEW a \in Runs, ClaimTerminalRun(b, a)
    PROVE  BrokerTypes'
  <1> DEFINE r == row[a].run
             m == IF mem[b].act[a] = NoAct THEN mem[b] ELSE Revoke(mem[b], a)
             n == ReleaseAdmission(m, a)
  <1>1. mem[b] \in MemoryType /\ a \in Holders
    BY ConstantTypes DEF BrokerTypes
  <1>2. m \in MemoryType
    BY <1>1, RevokeType
  <1>3. n \in MemoryType
    BY <1>2, ReleaseAdmissionType
  <1>4. [n EXCEPT !.reaping = @ \cup {a}] \in MemoryType
    <2> HIDE DEF n
    <2>1. n.reaping \cup {a} \in SUBSET Holders
      BY <1>1, <1>3 DEF MemoryType
    <2> QED BY <1>3, <2>1, MemoryFields
  <1>5. mem' = [mem EXCEPT ![b] = [n EXCEPT !.reaping = @ \cup {a}]]
    BY DEF ClaimTerminalRun
  <1>6. mem' \in [Brokers -> MemoryType]
    <2> HIDE DEF n
    <2> QED BY <1>4, <1>5, MemoryStep
  <1>7. row' \in [Holders -> RowType]
    BY <1>1, ClaimedType DEF ClaimTerminalRun, RowState, LiveActivation
  <1>8. op' \in [Runs -> OpType]
    BY DEF ClaimTerminalRun, BrokerTypes, OpType
  <1> QED BY <1>6, <1>7, <1>8 DEF ClaimTerminalRun, BrokerTypes

\* Starting stays within its type.
LEMMA StartingType ==
    ASSUME BrokerTypes, NEW b \in Brokers, NEW x \in Holders, NEW p \in OpenPhases,
           NEW k \in {"exec", "fork", "terminal", "environment"}, NEW h \in Holders
    PROVE  Starting(b, x, p, k, h) \in [Holders -> FlowType]
  BY FlowStep DEF Starting

\* Types of what OpenTerminal writes.
LEMMA OpenTerminalTypes ==
    ASSUME BrokerTypes, NEW b \in Brokers, NEW t \in Terminals, OpenTerminal(b, t)
    PROVE  BrokerTypes'
  <1> DEFINE acts == LiveOf(Runs, WorkspaceOf[t])
  <1>1. t \in Holders
    BY ConstantTypes
  <1>2. row' \in [Holders -> RowType]
    BY DEF RowType, RowState, LiveActivation, BrokerTypes, OpenTerminal
  <1>3. flow' \in [Holders -> FlowType]
    <2>1. CASE acts = {}
      BY <1>1, <2>1, StartingType, ThePhases DEF OpenTerminal
    <2>2. CASE acts # {}
      BY <2>2, ConstantTypes, <1>1, StartingType, ThePhases DEF LiveOf, OpenTerminal
    <2> QED BY <2>1, <2>2
  <1> QED BY <1>2, <1>3 DEF OpenTerminal, BrokerTypes

\* Types of what RetireWarm writes.
LEMMA RetireWarmTypes ==
    ASSUME BrokerTypes, NEW b \in Brokers, NEW t \in Terminals, RetireWarm(b, t)
    PROVE  BrokerTypes'
  <1> DEFINE a == flow[t].id
             w == WorkspaceOf[t]
             kept == mem[b].warm[w].id = a
             m == IF kept THEN [mem[b] EXCEPT !.warm[w] = NoWarm] ELSE mem[b]
  <1>1. t \in Holders /\ flow[t] # NoFlow /\ a \in Holders /\ w \in Workspaces /\ mem[b] \in MemoryType
    BY ThePhases, FlowAt, ConstantTypes DEF RetireWarm, BrokerTypes
  <1>2. PICK ok \in BOOLEAN :
              /\ Call(ok)
              /\ vm' = Destroyed(vm, a, ok /\ (kept \/ Destroyable(b, a)))
              /\ mem' = [mem EXCEPT ![b] = IF (ok /\ (kept \/ Destroyable(b, a))) /\ kept
                                           THEN ReleaseAdmission(m, a) ELSE m]
              /\ row' = IF (ok /\ (kept \/ Destroyable(b, a))) /\ CanSet(b, a)
                        THEN SetState(b, a, "released") ELSE SetState(b, t, "unknown")
              /\ flow' = IF (ok /\ (kept \/ Destroyable(b, a))) /\ CanSet(b, a)
                         THEN Starting(b, t, "admit", "terminal", t) ELSE [flow EXCEPT ![t] = NoFlow]
    BY DEF RetireWarm
  <1>3. m \in MemoryType
    BY <1>1, MemoryFields, NothingTypes
  <1>4. ReleaseAdmission(m, a) \in MemoryType
    BY <1>3, ReleaseAdmissionType
  <1>5. mem' \in [Brokers -> MemoryType]
    <2> HIDE DEF m
    <2> QED BY <1>2, <1>3, <1>4, MemoryStep
  <1>6. (ok /\ (kept \/ Destroyable(b, a))) \in BOOLEAN
    OBVIOUS
  <1>7. vm' \in [Holders -> VmType]
    BY <1>1, <1>2, <1>6, VmTypes DEF BrokerTypes
  <1>8. row' \in [Holders -> RowType]
    BY <1>1, SetStateType, <1>2 DEF RowState, LiveActivation
  <1>9. flow' \in [Holders -> FlowType]
    BY <1>1, StartingType, ThePhases, <1>2, FlowStep
  <1>10. faults' \in Nat
    BY <1>2, CallType
  <1> QED BY <1>5, <1>7, <1>8, <1>9, <1>10 DEF RetireWarm, BrokerTypes

\* Types of what FailHolder writes.
LEMMA FailHolderTypes ==
    ASSUME BrokerTypes, NEW b \in Brokers, NEW x \in Holders, NEW v \in [Holders -> VmType],
           FailHolder(b, x, v)
    PROVE  /\ vm' \in [Holders -> VmType] /\ mem' \in [Brokers -> MemoryType]
           /\ row' \in [Holders -> RowType] /\ flow' \in [Holders -> FlowType]
  BY ReleaseAdmissionType, MemoryStep, GivenUpType, SetStateType, FlowStep DEF FailHolder,
     BrokerTypes

\* Types of the starts of terminals and environments.
LEMMA HolderTypes ==
    ASSUME BrokerTypes, NEW b \in Brokers, NEW x \in Terminals \cup Envs,
           ProvideHolder(b, x) \/ CreateHolderFails(b, x) \/ RecordHolder(b, x)
    PROVE  BrokerTypes'
  <1>1. x \in Holders /\ mem[b] \in MemoryType
    BY ConstantTypes DEF BrokerTypes
  <1>2. CASE ProvideHolder(b, x)
    BY <1>1, <1>2, ThePhases, FlowAt, FlowStep DEF ProvideHolder, BrokerTypes
  <1>3. CASE CreateHolderFails(b, x)
    BY <1>1, <1>3, FailHolderTypes, CallType DEF BrokerTypes, CreateHolderFails
  <1>4. CASE RecordHolder(b, x)
    <2>1. CASE /\ row' = SetState(b, x, IF x \in Envs THEN "running" ELSE "active")
               /\ mem' = [mem EXCEPT ![b].open = @ \cup {x}]
               /\ flow' = [flow EXCEPT ![x] = NoFlow]
               /\ UNCHANGED <<vm, faults>>
      <3>1. row' \in [Holders -> RowType]
        BY <1>1, <2>1, SetStateType DEF RowState, LiveActivation, LiveEnvironment
      <3>2. mem[b].open \cup {x} \in SUBSET Holders
        BY <1>1 DEF MemoryType
      <3>3. [mem[b] EXCEPT !.open = mem[b].open \cup {x}] \in MemoryType
        BY <1>1, <3>2, MemoryFields
      <3>4. mem' = [mem EXCEPT ![b] = [mem[b] EXCEPT !.open = mem[b].open \cup {x}]]
        BY <2>1 DEF BrokerTypes
      <3>5. mem' \in [Brokers -> MemoryType]
        BY <3>3, <3>4, MemoryStep
      <3>6. flow' \in [Holders -> FlowType]
        BY <1>1, <2>1, FlowStep
      <3> QED BY <1>4, <2>1, <3>1, <3>5, <3>6 DEF RecordHolder, BrokerTypes
    <2>2. CASE \E ok \in BOOLEAN : Call(ok) /\ FailHolder(b, x, Discarded(vm, x, ok))
      BY <2>2, <1>1, VmTypes, FailHolderTypes, CallType, <1>4 DEF BrokerTypes, RecordHolder
    <2> QED BY <1>4, <2>1, <2>2 DEF RecordHolder
  <1> QED BY <1>2, <1>3, <1>4

\* Types of what CloseTerminal writes.
LEMMA CloseTerminalTypes ==
    ASSUME BrokerTypes, NEW b \in Brokers, NEW t \in Terminals, CloseTerminal(b, t)
    PROVE  BrokerTypes'
  <1> DEFINE m == [mem[b] EXCEPT !.open = @ \ {t}]
  <1>1. t \in Holders /\ mem[b] \in MemoryType
    BY ConstantTypes DEF BrokerTypes
  <1>2. m \in MemoryType
    BY <1>1, MemoryFields DEF MemoryType
  <1>3. PICK ok \in BOOLEAN :
            /\ Call(ok)
            /\ vm' = Destroyed(vm, t, ok)
            /\ mem' = [mem EXCEPT ![b] = IF ok THEN ReleaseAdmission(m, t) ELSE m]
            /\ row' = SetState(b, t, IF ok THEN "released" ELSE "unknown")
    BY DEF CloseTerminal
  <1>4. ReleaseAdmission(m, t) \in MemoryType
    BY <1>2, ReleaseAdmissionType
  <1>5. mem' \in [Brokers -> MemoryType]
    <2> HIDE DEF m
    <2> QED BY <1>2, <1>3, <1>4, MemoryStep
  <1>6. vm' \in [Holders -> VmType]
    BY <1>1, <1>3, VmTypes DEF BrokerTypes
  <1>7. row' \in [Holders -> RowType]
    BY <1>1, <1>3, SetStateType DEF RowState, LiveActivation
  <1>8. faults' \in Nat
    BY <1>3, CallType
  <1> QED BY <1>5, <1>6, <1>7, <1>8 DEF CloseTerminal, BrokerTypes

\* Types of the requests of environments.
LEMMA EnvironmentTypes ==
    ASSUME BrokerTypes, NEW e \in Envs,
           RequestEnvironment(e) \/ WithdrawEnvironment(e) \/ WithdrawCommits(e)
    PROVE  BrokerTypes'
  <1>1. e \in Holders
    BY ConstantTypes
  <1>2. CASE RequestEnvironment(e)
    BY <1>1, <1>2, ClaimedType DEF RequestEnvironment, RowState, LiveEnvironment, BrokerTypes
  <1>3. CASE WithdrawEnvironment(e)
    BY <1>3 DEF WithdrawEnvironment, BrokerTypes
  <1>4. CASE WithdrawCommits(e)
    <2>1. row' \in [Holders -> RowType]
      BY <1>1, <1>4, ClaimedType DEF WithdrawCommits, RowState
    <2>2. vm' \in [Holders -> VmType]
      <3>1. [vm EXCEPT ![e].stray = TRUE] \in [Holders -> VmType]
        BY <1>1 DEF BrokerTypes, VmType
      <3> QED BY <1>4, <3>1 DEF WithdrawCommits, BrokerTypes
    <2> QED BY <1>4, <2>1, <2>2 DEF WithdrawCommits, BrokerTypes
  <1> QED BY <1>2, <1>3, <1>4

\* Types of the operations on an environment.
LEMMA OwnedEnvironmentTypes ==
    ASSUME BrokerTypes, NEW b \in Brokers, NEW e \in Envs,
           \/ ProvisionEnvironment(b, e) \/ PauseEnvironment(b, e)
           \/ ResumeEnvironment(b, e) \/ ReleaseEnvironment(b, e) \/ AttachPty(b, e)
    PROVE  BrokerTypes'
  <1>1. e \in Holders /\ mem[b] \in MemoryType
    BY ConstantTypes DEF BrokerTypes
  <1>2. /\ "provisioning" \in RowState /\ "paused" \in RowState /\ "running" \in RowState
        /\ "unknown" \in RowState /\ "released" \in RowState
    BY DEF RowState, LiveActivation, LiveEnvironment
  <1>3. CASE ProvisionEnvironment(b, e)
    BY <1>1, <1>2, <1>3, ClaimedType, StartingType, ThePhases DEF ProvisionEnvironment,
       BrokerTypes
  <1>4. CASE PauseEnvironment(b, e)
    <2>1. PICK ok \in BOOLEAN :
            /\ Call(ok)
            /\ vm' = IF ok THEN [vm EXCEPT ![e].state = "paused"] ELSE vm
            /\ row' = SetState(b, e, IF ok THEN "paused" ELSE "unknown")
      BY <1>4 DEF PauseEnvironment
    <2>2. row' \in [Holders -> RowType]
      BY <1>1, <1>2, <2>1, SetStateType
    <2>3. vm' \in [Holders -> VmType]
      BY <1>1, <2>1, VmTypes DEF BrokerTypes
    <2>4. faults' \in Nat
      BY <2>1, CallType
    <2> QED BY <1>4, <2>2, <2>3, <2>4 DEF PauseEnvironment, BrokerTypes
  <1>5. CASE ResumeEnvironment(b, e)
    <2>1. PICK ok \in BOOLEAN :
            /\ Call(ok)
            /\ vm' = IF ok THEN [vm EXCEPT ![e].state = "running"] ELSE vm
            /\ row' = SetState(b, e, IF ok THEN "running" ELSE "unknown")
      BY <1>5 DEF ResumeEnvironment
    <2>2. row' \in [Holders -> RowType]
      BY <1>1, <1>2, <2>1, SetStateType
    <2>3. vm' \in [Holders -> VmType]
      BY <1>1, <2>1, VmTypes DEF BrokerTypes
    <2>4. faults' \in Nat
      BY <2>1, CallType
    <2> QED BY <1>5, <2>2, <2>3, <2>4 DEF ResumeEnvironment, BrokerTypes
  <1>6. CASE ReleaseEnvironment(b, e)
    <2> DEFINE n == [mem[b] EXCEPT !.open = mem[b].open \ {e}]
               m == [n EXCEPT !.ptys = mem[b].ptys \ {e}]
    <2>1. mem[b].open \ {e} \in SUBSET Holders /\ mem[b].ptys \ {e} \in SUBSET Holders
      BY <1>1 DEF MemoryType
    <2>2. n \in MemoryType
      BY <1>1, <2>1, MemoryFields
    <2>3. m \in MemoryType
      BY <2>1, <2>2, MemoryFields
    <2>4. [mem[b] EXCEPT !.open = @ \ {e}, !.ptys = @ \ {e}] = m
      BY <1>1 DEF MemoryType
    <2>5. ReleaseAdmission(m, e) \in MemoryType
      BY <2>3, ReleaseAdmissionType
    <2>6. PICK ok \in BOOLEAN :
            /\ Call(ok)
            /\ vm' = Destroyed(vm, e, ok)
            /\ mem' = IF ok THEN [mem EXCEPT ![b] = ReleaseAdmission(m, e)] ELSE mem
            /\ row' = SetState(b, e, IF ok THEN "released" ELSE "unknown")
      BY <1>6, <2>4 DEF ReleaseEnvironment
    <2>7. mem' \in [Brokers -> MemoryType]
      <3> HIDE DEF m
      <3> QED BY <2>5, <2>6, MemoryStep DEF BrokerTypes
    <2>8. row' \in [Holders -> RowType]
      BY <1>1, <1>2, <2>6, SetStateType
    <2>9. vm' \in [Holders -> VmType]
      BY <1>1, <2>6, VmTypes DEF BrokerTypes
    <2>10. faults' \in Nat
      BY <2>6, CallType
    <2> QED BY <1>6, <2>7, <2>8, <2>9, <2>10 DEF ReleaseEnvironment, BrokerTypes
  <1>7. CASE AttachPty(b, e)
    <2>1. mem[b].ptys \cup {e} \in SUBSET Holders /\ mem[b].ptys \ {e} \in SUBSET Holders
      BY <1>1 DEF MemoryType
    <2>2. /\ [mem[b] EXCEPT !.ptys = mem[b].ptys \cup {e}] \in MemoryType
          /\ [mem[b] EXCEPT !.ptys = mem[b].ptys \ {e}] \in MemoryType
      BY <1>1, <2>1, MemoryFields
    <2>3. \/ mem' = [mem EXCEPT ![b] = [mem[b] EXCEPT !.ptys = mem[b].ptys \cup {e}]]
          \/ mem' = [mem EXCEPT ![b] = [mem[b] EXCEPT !.ptys = mem[b].ptys \ {e}]]
      BY <1>7 DEF AttachPty, BrokerTypes
    <2>4. mem' \in [Brokers -> MemoryType]
      BY <2>2, <2>3, MemoryStep
    <2> QED BY <1>7, <2>4 DEF AttachPty, BrokerTypes
  <1> QED BY <1>3, <1>4, <1>5, <1>6, <1>7

\* Types of what Stopped writes.
LEMMA StoppedTypes ==
    ASSUME BrokerTypes, NEW b \in Brokers, Stopped(b)
    PROVE  /\ up' \in [Brokers -> BOOLEAN] /\ mem' \in [Brokers -> MemoryType]
           /\ flow' \in [Holders -> FlowType] /\ closing' \in [Runs -> CloseType]
  BY NothingTypes DEF Stopped, BrokerTypes

\* Vanish stays within its type.
LEMMA VanishType ==
    ASSUME BrokerTypes, NEW b \in Brokers, NEW late, NEW v \in [Holders -> VmType], NEW stray \in BOOLEAN
    PROVE  Vanish(b, late, v, stray) \in [Holders -> VmType]
  <1>1. ASSUME NEW h \in Holders
        PROVE  /\ [NewVm(b, h, None) EXCEPT !.prov = None, !.stray = @ \/ stray] \in VmType
               /\ [v[h] EXCEPT !.prov = None] \in VmType /\ v[h] \in VmType
    <2> DEFINE n == NewVm(b, h, None)
    <2>1. n \in VmType
      BY NewVmType
    <2>2. (n.stray \/ stray) \in BOOLEAN
      OBVIOUS
    <2> HIDE DEF n
    <2>3. [n EXCEPT !.prov = None, !.stray = n.stray \/ stray] \in VmType
      BY <2>1, <2>2 DEF VmType
    <2>4. v[h] \in VmType /\ [v[h] EXCEPT !.prov = None] \in VmType
      BY DEF VmType
    <2> QED BY <2>3, <2>4 DEF n
  <1> QED BY <1>1 DEF Vanish

\* Types of the end of a replica.
LEMMA EndTypes ==
    ASSUME BrokerTypes, NEW b \in Brokers, Crash(b) \/ Close(b)
    PROVE  BrokerTypes'
  <1>1. /\ up' \in [Brokers -> BOOLEAN] /\ mem' \in [Brokers -> MemoryType]
        /\ flow' \in [Holders -> FlowType] /\ closing' \in [Runs -> CloseType]
    BY StoppedTypes DEF Crash, Close
  <1>2. vm \in [Holders -> VmType] /\ faults' \in Nat
    <2>1. faults' = faults + 1
      BY DEF Crash, Close
    <2> QED BY <2>1 DEF BrokerTypes
  <1>3. CASE Crash(b)
    <2>1. vm' \in [Holders -> VmType]
      BY <1>2, <1>3, VanishType DEF Crash
    <2> QED BY <1>1, <1>2, <1>3, <2>1 DEF Crash, BrokerTypes
  <1>4. CASE Close(b)
    <2> DEFINE swept == {h \in Holders : vm[h].prov = b \/ h \in mem[b].open}
               v == [h \in Holders |-> IF h \in swept THEN NoVm ELSE vm[h]]
    <2>1. v \in [Holders -> VmType]
      BY <1>2, NothingTypes
    <2>2. vm' \in [Holders -> VmType]
      <3>1. PICK late \in SUBSET InFlight(b) : vm' = Vanish(b, late, v, TRUE)
        BY <1>4 DEF Close
      <3> QED BY <2>1, <3>1, VanishType
    <2>3. row' \in [Holders -> RowType]
      <3>1. \A h \in Holders, s \in RowState : row[h].state \in RowState /\ [row[h] EXCEPT !.state = s] \in RowType
        BY DEF BrokerTypes, RowType
      <3>2. "released" \in RowState /\ "failed" \in RowState /\ "unknown" \in RowState
        BY DEF RowState, LiveActivation
      <3> DEFINE done(h) == IF ~CanSet(b, h) THEN row[h].state
                   ELSE IF h \in Known(b) THEN "released"
                   ELSE IF h \in mem[b].open THEN IF h \in Envs THEN "failed" ELSE "released"
                   ELSE IF Live(h) /\ h \notin Terminals /\ row[h].state # "requested"
                   THEN "unknown" ELSE row[h].state
      <3>3. row' = [h \in Holders |-> [row[h] EXCEPT !.state = done(h)]]
        BY <1>4 DEF Close
      <3>4. \A h \in Holders : done(h) \in RowState
        BY <3>1, <3>2
      <3> HIDE DEF done
      <3> QED BY <3>1, <3>3, <3>4
    <2>4. op' \in [Runs -> OpType]
      BY <1>4, OrphanedType DEF Close
    <2>5. inst' \in [Brokers -> {"absent", "ready", "expired", "lost", "stopped"}]
      BY <1>4 DEF Close, BrokerTypes
    <2> QED BY <1>1, <1>2, <1>4, <2>2, <2>3, <2>4, <2>5 DEF Close, BrokerTypes
  <1> QED BY <1>3, <1>4

\* Types of the end of a Run.
LEMMA EndRunTypes ==
    ASSUME BrokerTypes, NEW r \in Runs, EndRun(r)
    PROVE  BrokerTypes'
  BY DEF EndRun, BrokerTypes
-----------------------------------------------------------------------------
(* Steps that give things up *)

\* No row comes to hold its Workspace, and none becomes unclaimed again.
RowsFall ==
    \A h \in Holders : /\ Held(h)' => Held(h)
                       /\ row[h].state # "none" => row'[h].state # "none"

\* No VM comes to write, none changes hands, and one that writes keeps its row held.
VmsFall ==
    \A h \in Holders :
        Written(h)' => /\ Written(h) /\ vm'[h].prov = vm[h].prov
                       /\ Held(h) => Held(h)'

\* Calls end, or go on for the same activation in the same replica, or begin for an
\* activation the replica knows.
FlowsFallOn(xs) ==
    \A x \in xs :
        \/ flow'[x] = NoFlow
        \/ /\ flow[x] # NoFlow /\ flow'[x].by = flow[x].by /\ flow'[x].id = flow[x].id
           /\ flow'[x].phase = "retire" <=> flow[x].phase = "retire"
           /\ x \in Envs /\ flow[x].phase = "created" => flow'[x].phase = "created"
        \/ /\ x \in Runs /\ flow'[x].phase # "retire" /\ flow'[x].by \in Brokers
           /\ flow'[x].id \in Runs /\ Knows(flow'[x].by, flow'[x].id)

FlowsFall == FlowsFallOn(Holders)

\* A replica that is down stays empty, and environments open and are reaped as EnvFlows and ReapOK say.
MemoryKept ==
    \A b \in Brokers :
        /\ ~up[b] => mem'[b] = mem[b]
        /\ \A e \in Envs :
              /\ e \in mem'[b].open =>
                    e \in mem[b].open \/ (flow'[e] = NoFlow /\ e \notin mem'[b].reaping)
              /\ e \in mem'[b].reaping =>
                    \/ e \in mem[b].reaping
                    \/ e \notin mem'[b].open /\ row'[e].state = "releasing" /\ row'[e].owner = b

\* Memory comes to name no activation its replica did not know.
MemoryFalls ==
    \A b \in Brokers :
        /\ ~up[b] => mem'[b] = mem[b]
        /\ \A a \in Runs : KnownIn(mem'[b], a) => Knows(b, a)
        /\ \A e \in Envs :
              /\ e \in mem'[b].open =>
                    e \in mem[b].open \/ (flow'[e] = NoFlow /\ e \notin mem'[b].reaping)
              /\ e \in mem'[b].reaping =>
                    \/ e \in mem[b].reaping
                    \/ e \notin mem'[b].open /\ row'[e].state = "releasing" /\ row'[e].owner = b

\* Releases end, or begin for an activation the replica knows.
ClosingFalls ==
    \A r \in Runs :
        \/ closing'[r] = NoClose \/ closing'[r] = closing[r]
        \/ /\ closing'[r].by \in Brokers /\ closing'[r].id \in Runs
           /\ Knows(closing'[r].by, closing'[r].id)

\* No replica goes down, and none becomes current again.
InstancesFall ==
    \A b \in Brokers :
        /\ up[b] => up'[b] /\ (Current(b)' => Current(b))
        /\ inst[b] # "absent" => inst'[b] # "absent"
        /\ inst'[b] = "absent" => ~up'[b]

\* The row of an environment changes when no call or reaper of a current replica minds.
EnvsFall ==
    \A e \in Envs :
        \/ row'[e] = row[e]
        \/ row'[e].state = "released"
        \/ \A b \in Brokers :
              Current(b)' => /\ flow'[e].by # b
                             /\ e \in mem'[b].reaping =>
                                   row'[e].state = "releasing" /\ row'[e].owner = b

\* A step that gives nothing out: it keeps the invariant by OrdinaryStep.
Ordinary ==
    /\ RowsFall /\ VmsFall /\ FlowsFall /\ MemoryFalls /\ ClosingFalls
    /\ InstancesFall /\ EnvsFall

\* The fields of the empty values.
LEMMA NoneNothing ==
    /\ NoFlow.phase = "none" /\ NoFlow.by = None /\ NoFlow.id = None
    /\ NoClose.by = None /\ NoClose.id = None
    /\ NoAct.run = None /\ NoAct.handle = FALSE /\ NoWarm.id = None /\ NoWarm.run = None
    /\ NoVm.state = "none"
  BY DEF NoFlow, NoClose, NoAct, NoWarm, NoVm

\* Where nothing comes to be held or to write, the Workspaces stay with one holder each.
LEMMA AloneFrame ==
    ASSUME BrokerInv, BrokerTypes', \A h \in Holders : Held(h)' => Held(h), VmsFall,
           \A t \in Terminals : flow[t].phase \in {"none", "retire"} => flow'[t].phase \in {"none", "retire"}
    PROVE  VmHeld' /\ HeldAlone'
  BY DEF BrokerInv, VmHeld, VmsFall, Retiring, HeldAlone

\* A terminal that retires goes on retiring or ends.
LEMMA FlowsFallRetire ==
    ASSUME BrokerTypes, FlowsFall, NEW t \in Terminals, flow[t].phase \in {"none", "retire"}
    PROVE  flow'[t].phase \in {"none", "retire"}
  BY ConstantTypes, SandboxBrokerAssumption, ThePhases, NoneNothing DEF BrokerTypes, FlowType,
     FlowsFall, FlowsFallOn

\* A call stays with its live replica and its activation.
LEMMA FlowsFrame ==
    ASSUME BrokerInv, NEW x \in Holders, FlowsFallOn({x}), InstancesFall
    PROVE  FlowOK(x)'
  BY FlowStep DEF FlowOK, BrokerInv, FlowsOK, InstancesFall, HomesOK, DownOK, FlowsFallOn

LEMMA MemoryFallsKept == MemoryFalls => MemoryKept
  BY DEF MemoryFalls, MemoryKept

\* A replica that is down stays empty.
LEMMA DownFrame ==
    ASSUME BrokerInv, MemoryKept, InstancesFall
    PROVE  DownOK'
  BY DEF BrokerInv, MemoryKept, InstancesFall, DownOK

\* Environments stay with the call or the reaper that has them.
LEMMA EnvFrame ==
    ASSUME BrokerInv, \A e \in Envs : Written(e)' => Written(e),
           FlowsFallOn(Envs), MemoryKept, InstancesFall, EnvsFall
    PROVE  EnvFlows' /\ ReapOK'
  <1>1. ASSUME NEW e \in Envs, NEW b \in Brokers, e \in mem'[b].reaping
        PROVE  /\ e \notin mem'[b].open
               /\ Current(b)' => \/ row'[e].state = "released"
                                 \/ row'[e].state = "releasing" /\ row'[e].owner = b
    BY <1>1 DEF EmptyMemory, BrokerInv, DownOK, ReapOK, MemoryKept, InstancesFall, EnvsFall
  <1>2. ASSUME NEW e \in Envs, flow'[e] # NoFlow
        PROVE  /\ \A b \in Brokers : flow'[e].by = b => e \notin mem'[b].open
               /\ Current(flow[e].by)' =>
                  \/ row'[e].state = "released"
                  \/ /\ row'[e].state = "provisioning" /\ row'[e].owner = flow'[e].by
                     /\ flow'[e].phase # "created" => ~Written(e)'
    BY ConstantTypes, SandboxBrokerAssumption, <1>2, FlowStep DEF FlowsFallOn, BrokerInv, FlowsOK,
       FlowOK, EnvFlows, MemoryKept, InstancesFall, EnvsFall, Current
  <1>3. EnvFlows'
    BY <1>2 DEF EnvFlows
  <1>4. ReapOK'
    BY <1>1 DEF ReapOK
  <1> QED BY <1>3, <1>4

\* A replica knows no activation it did not know before.
LEMMA KnowsFrame ==
    ASSUME BrokerInv, FlowsFallOn(Runs), MemoryFalls, ClosingFalls,
           NEW b \in Brokers, NEW a \in Runs, Knows(b, a)'
    PROVE  Knows(b, a)
  <1>1. CASE KnownIn(mem'[b], a)
    BY <1>1 DEF MemoryFalls
  <1>2. CASE \E x \in Runs : flow'[x].by = b /\ flow'[x].id = a
    BY <1>2, NoneNothing, ConstantTypes DEF FlowsFallOn, Knows
  <1>3. CASE \E r \in Runs : closing'[r].by = b /\ closing'[r].id = a
    BY <1>3, NoneNothing, ConstantTypes DEF ClosingFalls, Knows
  <1> QED BY <1>1, <1>2, <1>3 DEF Knows, KnownIn

\* Activations stay with the replica that knows them.
LEMMA HomesFrame ==
    ASSUME BrokerInv, \A h \in Holders : row[h].state # "none" => row'[h].state # "none",
           VmsFall, FlowsFallOn(Runs), MemoryFalls, ClosingFalls, InstancesFall
    PROVE  HomesOK'
  BY KnowsFrame, ConstantTypes DEF BrokerInv, HomesOK, VmsFall, InstancesFall

\* A step that gives nothing out keeps the invariant.
LEMMA OrdinaryStep ==
    ASSUME BrokerInv, BrokerTypes', RowsOK', Ordinary
    PROVE  BrokerInv'
  BY AloneFrame, FlowsFallRetire, ConstantTypes, FlowsFrame, MemoryFallsKept, DownFrame, EnvFrame,
     HomesFrame DEF Ordinary, RowsFall, BrokerInv, FlowsFall, FlowsFallOn, FlowsOK, FlowOK,
     VmsFall
-----------------------------------------------------------------------------
(* What the helpers leave of rows, VMs and memory *)

\* A state that SetState writes to the row of h.
Legal(h, s) ==
    /\ h \in Runs => s \in LiveActivation \cup {"released"}
    /\ h \in Terminals => s \in LiveTerminal \cup {"released"}
    /\ h \in Envs => s \in (LiveEnvironment \ {"requested"}) \cup {"failed", "released"}

\* Legal states are states of the holder's own table, live unless given up.
LEMMA LegalStates ==
    ASSUME NEW h \in Holders, NEW s, Legal(h, s)
    PROVE  /\ s \in RowState /\ s \notin {"none", "requested"}
           /\ s \notin {"failed", "released"} <=> s \in IF h \in Runs THEN LiveActivation
                            ELSE IF h \in Terminals THEN LiveTerminal ELSE LiveEnvironment
  BY SandboxBrokerAssumption DEF Legal, RowState, LiveActivation, LiveTerminal, LiveEnvironment,
     Holders

\* SetState changes the row of one holder, and ends its hold only by giving it up.
LEMMA SetStateRows ==
    ASSUME BrokerTypes, RowsOK, NEW b \in Brokers, NEW h \in Holders, NEW s, Legal(h, s),
           h \in Envs /\ CanSet(b, h) => row[h].state # "failed",
           row' = SetState(b, h, s)
    PROVE  /\ RowsOK' /\ RowsFall
           /\ \A g \in Holders :
                 /\ \/ row'[g] = row[g]
                    \/ g = h /\ CanSet(b, h) /\ row'[g] = [row[g] EXCEPT !.state = s]
                 /\ Held(g) => \/ Held(g)'
                               \/ g = h /\ s \in {"released", "failed"} /\ CanSet(b, h)
  <1>1. CASE ~CanSet(b, h)
    BY <1>1 DEF SetState, RowsOK, RowsFall, Held, Live
  <1>2. CASE CanSet(b, h)
    <2>1. row' = [row EXCEPT ![h].state = s] /\ row \in [Holders -> RowType]
      BY <1>2 DEF SetState, BrokerTypes
    <2>2. /\ row[h].owner = b /\ row[h].state # "released"
      BY <1>2 DEF CanSet
    <2>3. row[h].state \notin {"none", "requested"}
      BY <2>2, ConstantTypes DEF RowsOK
    <2>4. \A g \in Holders : g # h => row'[g] = row[g]
      BY <2>1
    <2>5. row'[h] = [row[h] EXCEPT !.state = s] /\ row'[h].state = s /\ row'[h].owner = b
      BY <2>1, <2>2 DEF RowType
    <2>6. Held(h)
      BY <2>2, <2>3, SandboxBrokerAssumption, <1>2 DEF RowsOK, Held, Live, Holders
    <2>7. s \notin {"none", "requested"} /\ (s \notin {"failed", "released"} => Held(h)')
      BY <2>5, LegalStates DEF Held, Live
    <2>8. \A g \in Holders : g # h => (Held(g) <=> Held(g)')
      BY <2>4 DEF Held, Live
    <2>9. RowsOK'
      BY <2>4, <2>5, <2>7 DEF RowsOK, Legal
    <2>10. RowsFall
      BY <2>4, <2>5, <2>6, <2>7, <2>8 DEF RowsFall
    <2> QED BY <1>2, <2>4, <2>5, <2>7, <2>8, <2>9, <2>10
  <1> QED BY <1>1, <1>2

\* The VMs that v has are VMs of vm, and h is not one of them.
Fewer(v, h) ==
    \A g \in Holders :
        v[g].state # "none" /\ ~v[g].stray =>
            /\ Written(g) /\ v[g].prov = vm[g].prov /\ g # h

\* What the provider's calls leave of the VMs.
LEMMA FewerVms ==
    ASSUME BrokerTypes, NEW h \in Holders
    PROVE  /\ Fewer(vm, None)
           /\ Fewer([vm EXCEPT ![h] = NoVm], h) /\ Fewer(Destroyed(vm, h, TRUE), h)
           /\ Fewer(Destroyed(vm, h, FALSE), None)
           /\ \A ok \in BOOLEAN : Fewer(Discarded(vm, h, ok), h)
           /\ vm[h].state # "none" => /\ \A r : Fewer(Rebound(vm, h, r), None)
                                      /\ \A s : Fewer([vm EXCEPT ![h].state = s], None)
           /\ Fewer([vm EXCEPT ![h].stray = TRUE], h)
  <1>1. vm \in [Holders -> VmType] /\ \A g \in Holders : g # None
    BY ConstantTypes DEF BrokerTypes
  <1>2. Fewer(vm, None) /\ Fewer(Destroyed(vm, h, FALSE), None)
    BY <1>1 DEF Fewer, Destroyed, Written, Up
  <1>3. Fewer([vm EXCEPT ![h] = NoVm], h) /\ Fewer(Destroyed(vm, h, TRUE), h)
    BY <1>1, NoneNothing DEF Fewer, Destroyed, Written, Up
  <1>4. ASSUME NEW ok \in BOOLEAN PROVE Fewer(Discarded(vm, h, ok), h)
    BY <1>1, NoneNothing DEF Fewer, Discarded, Written, Up, VmType
  <1>5. ASSUME vm[h].state # "none"
        PROVE  /\ \A r : Fewer(Rebound(vm, h, r), None)
               /\ \A s : Fewer([vm EXCEPT ![h].state = s], None)
    BY <1>1, <1>5 DEF Fewer, Rebound, Written, Up, VmType
  <1>6. Fewer([vm EXCEPT ![h].stray = TRUE], h)
    BY <1>1 DEF Fewer, Written, Up, VmType
  <1> QED BY <1>2, <1>3, <1>4, <1>5, <1>6

\* Fewer VMs under rows that stay held are VMs that fall.
LEMMA VmsStep ==
    ASSUME NEW h, Fewer(vm', h), \A g \in Holders : g # h /\ Held(g) => Held(g)'
    PROVE  VmsFall
  BY DEF VmsFall, Fewer, Written, Up

\* Memory n holds no more than m.
Sub(n, m) ==
    /\ \A a \in Runs : KnownIn(n, a) => KnownIn(m, a)
    /\ n.open \subseteq m.open /\ n.reaping \subseteq m.reaping

\* Holding no more is transitive.
LEMMA SubTransitive ==
    ASSUME NEW n, NEW m, NEW l, Sub(n, m), Sub(m, l)
    PROVE  Sub(n, l)
  BY DEF Sub

\* Memories that name the same activations hold the same.
LEMMA SubSame ==
    ASSUME NEW n, NEW m, n.act = m.act, n.warm = m.warm, n.susp = m.susp,
           n.open \subseteq m.open, n.reaping \subseteq m.reaping
    PROVE  Sub(n, m)
  BY DEF Sub, KnownIn

\* Releasing, cancelling, revoking and forgetting leave a memory no more than it had.
LEMMA SubMemory ==
    ASSUME NEW m \in MemoryType
    PROVE  /\ Sub(m, m)
           /\ \A h : Sub(ReleaseAdmission(m, h), m)
           /\ \A h : Sub(CancelAdmissionWaiter(m, h), m)
           /\ \A a \in Runs : Sub(Revoke(m, a), m)
           /\ \A w \in Workspaces : Sub([m EXCEPT !.warm[w] = NoWarm], m)
           /\ \A w \in Workspaces : Sub([m EXCEPT !.susp[w] = NoWarm], m)
           /\ \A a \in Runs : \A x : m.act[a] # NoAct => Sub([m EXCEPT !.act[a] = x], m)
  <1>1. Sub(m, m) /\ \A h : Sub(ReleaseAdmission(m, h), m)
    BY ReleaseAdmissionType, SubSame
  <1>2. ASSUME NEW h PROVE Sub(CancelAdmissionWaiter(m, h), m)
    <2> DEFINE n == CancelAdmissionWaiter(m, h)
    <2>1. n = [m EXCEPT !.waiters = n.waiters]
      BY CancelAdmissionWaiterType
    <2>2. n.act = m.act /\ n.warm = m.warm /\ n.susp = m.susp /\ n.open = m.open /\ n.reaping = m.reaping
      <3> HIDE DEF n
      <3> QED BY <2>1 DEF MemoryType
    <2> QED BY <2>2, SubSame
  <1>3. ASSUME NEW a \in Runs PROVE Sub(Revoke(m, a), m)
    <2> DEFINE n == Revoke(m, a)
    <2>1. /\ n.act = [m.act EXCEPT ![a] = NoAct] /\ n.warm = m.warm /\ n.susp = m.susp
          /\ n.open = m.open /\ n.reaping = m.reaping
      BY RevokeType
    <2> HIDE DEF n
    <2>2. \A c \in Runs : n.act[c] # NoAct => m.act[c] # NoAct
      BY <2>1 DEF MemoryType
    <2>3. Sub(n, m)
      BY <2>1, <2>2 DEF Sub, KnownIn
    <2> QED BY <2>3 DEF n
  <1>4. \A w \in Workspaces : Sub([m EXCEPT !.warm[w] = NoWarm], m)
    BY ConstantTypes, NoneNothing DEF Sub, KnownIn, MemoryType
  <1>5. \A w \in Workspaces : Sub([m EXCEPT !.susp[w] = NoWarm], m)
    BY ConstantTypes, NoneNothing DEF Sub, KnownIn, MemoryType
  <1>6. ASSUME NEW a \in Runs, NEW x, m.act[a] # NoAct
        PROVE  Sub([m EXCEPT !.act[a] = x], m)
    BY <1>6 DEF Sub, KnownIn, MemoryType
  <1> QED BY <1>1, <1>2, <1>3, <1>4, <1>5, <1>6

\* A replica whose memory holds no more than before.
LEMMA SubStep ==
    ASSUME BrokerTypes, NEW b \in Brokers, NEW n, mem' = [mem EXCEPT ![b] = n], up[b], Sub(n, mem[b])
    PROVE  MemoryFalls
  BY DEF BrokerTypes, MemoryFalls, Sub, Knows

\* What a step leaves alone falls trivially.
LEMMA SameMemory == UNCHANGED mem => MemoryFalls
  BY DEF MemoryFalls, Knows

LEMMA SameRows == UNCHANGED row /\ RowsOK => /\ RowsOK' /\ RowsFall /\ EnvsFall
                                             /\ \A g \in Holders : Held(g) <=> Held(g)'
  BY DEF RowsOK, RowsFall, EnvsFall, Held, Live

LEMMA SameVms ==
    ASSUME UNCHANGED vm, \A g \in Holders : Written(g) /\ Held(g) => Held(g)'
    PROVE  VmsFall
  BY DEF VmsFall, Written, Up

LEMMA SameFlows == UNCHANGED flow => FlowsFall
  BY DEF FlowsFall, FlowsFallOn

LEMMA SameClosing == UNCHANGED closing => ClosingFalls
  BY DEF ClosingFalls

LEMMA SameInstances == UNCHANGED <<inst, up>> /\ DownOK => InstancesFall
  BY DEF InstancesFall, Current, DownOK

\* A call that ends or goes to its next phase.
LEMMA FlowEnds ==
    ASSUME BrokerTypes, NEW x \in Holders,
           \/ flow' = [flow EXCEPT ![x] = NoFlow]
           \/ /\ flow[x] # NoFlow
              /\ flow[x].phase # "retire" /\ (x \in Envs => flow[x].phase # "created")
              /\ \E p \in OpenPhases \ {"retire"} : flow' = [flow EXCEPT ![x].phase = p]
    PROVE  FlowsFall
  BY DEF BrokerTypes, FlowsFall, FlowsFallOn, FlowType

\* A call of a replica is about an activation the replica knows.
LEMMA FlowBy ==
    ASSUME BrokerInv, NEW x \in Holders, NEW b \in Brokers, flow[x].by = b
    PROVE  /\ up[b] /\ flow[x] # NoFlow /\ flow[x].id \in Holders
           /\ x \in Runs => flow[x].id \in Runs /\ Knows(b, flow[x].id)
           /\ x \notin Runs /\ flow[x].phase # "retire" => flow[x].id = x
  BY NoneNothing, ConstantTypes, FlowStep DEF BrokerInv, FlowsOK, FlowOK, Knows
-----------------------------------------------------------------------------
(* The ordinary steps *)

\* Replicas whose lease ran out lose rows and operations, and no VM.
LEMMA MarkLostFalls ==
    ASSUME BrokerInv, NEW i, MarkExpiredOwnersLost(i), UNCHANGED <<vm, mem, flow, closing>>,
           \A b \in Brokers : up[b] => up'[b] /\ i[b] = inst[b],
           \A b \in Brokers : inst[b] # "absent" => i[b] # "absent",
           \A b \in Brokers : i[b] = "absent" => ~up'[b]
    PROVE  RowsOK' /\ Ordinary
  <1> DEFINE lost == {b \in Brokers : i[b] = "expired"}
  <1>1. /\ inst' = [b \in Brokers |-> IF b \in lost THEN "lost" ELSE i[b]]
        /\ row' = Orphaned(lost, {})
    BY DEF MarkExpiredOwnersLost
  <1> HIDE DEF lost
  <1>2. ASSUME NEW h \in Holders
        PROVE  \/ row'[h] = row[h]
               \/ /\ row[h].owner \in lost /\ Held(h) /\ row[h].state # "unknown"
                  /\ row'[h] = [row[h] EXCEPT !.state = "unknown"]
    BY <1>1 DEF Orphaned, Held
  <1>3. ASSUME NEW h \in Holders, row'[h] # row[h]
        PROVE  row'[h].state = "unknown" /\ row'[h].owner = row[h].owner
    <2>1. row[h] \in RowType
      BY DEF BrokerInv, BrokerTypes
    <2> QED BY <1>2, <1>3, <2>1 DEF RowType
  <1>4. \A h \in Holders : Held(h) <=> Held(h)'
    BY <1>2, <1>3 DEF Held, Live, LiveActivation, LiveTerminal, LiveEnvironment
  <1>5. RowsOK'
    BY <1>3 DEF BrokerInv, RowsOK, LiveActivation, LiveTerminal, LiveEnvironment
  <1>6. RowsFall
    BY <1>3, <1>4 DEF RowsFall
  <1>7. VmsFall
    BY <1>4, SameVms
  <1>8. FlowsFall /\ MemoryFalls /\ ClosingFalls
    BY SameFlows, SameMemory, SameClosing
  <1>9. InstancesFall
    BY <1>1 DEF InstancesFall, Current
  <1>10. EnvsFall
    <2> SUFFICES ASSUME NEW e \in Envs, row'[e] # row[e], NEW b \in Brokers, Current(b)'
                 PROVE  flow'[e].by # b /\ e \notin mem'[b].reaping
      BY DEF EnvsFall
    <2>1. e \in Holders
      BY ConstantTypes
    <2>2. Live(e) /\ row[e].state # "unknown" /\ row[e].owner \in lost
      BY <1>2, <2>1 DEF Held
    <2>3. b \notin lost
      BY <1>1 DEF Current
    <2>4. row[e].state # "released" /\ row[e].owner # b
      BY <2>1, <2>2, <2>3, SandboxBrokerAssumption DEF Live, LiveEnvironment
    <2>5. up[b] => Current(b)
      BY <1>1, <2>3 DEF Current
    <2>6. ASSUME flow'[e].by = b PROVE FALSE
      BY <2>1, <2>6, FlowBy, <2>4, <2>5 DEF BrokerInv, EnvFlows
    <2>7. ASSUME e \in mem'[b].reaping PROVE FALSE
      BY <2>7, <2>4, <2>5 DEF BrokerInv, DownOK, EmptyMemory, ReapOK
    <2> QED BY <2>6, <2>7
  <1> QED BY <1>5, <1>6, <1>7, <1>8, <1>9, <1>10 DEF Ordinary

\* Leases that start, are renewed or run out keep the invariant.
LEMMA InstanceKeeps ==
    ASSUME BrokerInv, NEW b \in Brokers, Start(b) \/ Renew(b) \/ LeaseExpires(b)
    PROVE  BrokerInv'
  <1>1. BrokerTypes' /\ BrokerTypes /\ DownOK
    BY InstanceTypes DEF BrokerInv
  <1>2. CASE Start(b)
    <2> DEFINE i == [inst EXCEPT ![b] = "ready"]
    <2>1. MarkExpiredOwnersLost(i) /\ UNCHANGED <<vm, mem, flow, closing>>
      BY <1>2 DEF Start
    <2>2. \A c \in Brokers : up[c] => up'[c] /\ i[c] = inst[c]
      BY <1>1, <1>2 DEF Start, DownOK, BrokerTypes
    <2>3. \A c \in Brokers : inst[c] # "absent" => i[c] # "absent"
      BY <1>1 DEF BrokerTypes
    <2>4. \A c \in Brokers : i[c] = "absent" => ~up'[c]
      BY <1>1, <1>2 DEF Start, DownOK, BrokerTypes
    <2>5. RowsOK' /\ Ordinary
      <3> HIDE DEF i
      <3> QED BY <2>1, <2>2, <2>3, <2>4, MarkLostFalls
    <2> QED BY <1>1, <2>5, OrdinaryStep
  <1>3. CASE Renew(b)
    BY <1>1, <1>3, MarkLostFalls, OrdinaryStep DEF Renew, DownOK
  <1>4. CASE LeaseExpires(b)
    BY <1>4, SameRows, SameVms, SameFlows, SameMemory, SameClosing, <1>1, OrdinaryStep DEF
       LeaseExpires, BrokerInv, InstancesFall, Current, DownOK, BrokerTypes, Ordinary
  <1> QED BY <1>2, <1>3, <1>4

\* A warm Sandbox that is discarded leaves memory, and its row when its VM is gone.
LEMMA DiscardFalls ==
    ASSUME BrokerInv, NEW b \in Brokers, NEW w \in Workspaces, NEW ok \in BOOLEAN, NEW other,
           up[b], DiscardWarm(b, w, ok, other)
    PROVE  /\ mem[b].warm[w].id \in Runs
           /\ MemoryFalls /\ ClosingFalls /\ InstancesFall
           /\ vm' = Destroyed(vm, mem[b].warm[w].id, ok)
           /\ row' = IF ok THEN SetState(b, mem[b].warm[w].id, "released") ELSE other
  <1> DEFINE e == mem[b].warm[w]
             m == [mem[b] EXCEPT !.warm[w] = NoWarm]
             n == IF ok THEN ReleaseAdmission(m, e.id) ELSE m
  <1>1. mem[b] \in MemoryType /\ m \in MemoryType /\ BrokerTypes
    BY MemoryFields, WarmIds, NothingTypes DEF BrokerInv
  <1>2. e.id \in Runs
    BY <1>1, WarmIds DEF DiscardWarm, WarmType
  <1>3. Sub(m, mem[b])
    BY <1>1, SubMemory
  <1>4. Sub(ReleaseAdmission(m, e.id), m)
    BY <1>1, SubMemory
  <1>5. Sub(n, mem[b])
    BY <1>3, <1>4, SubTransitive
  <1>6. mem' = [mem EXCEPT ![b] = n]
    BY DEF DiscardWarm
  <1>7. MemoryFalls
    <2> HIDE DEF n
    <2> QED BY <1>1, <1>5, <1>6, SubStep
  <1>8. ClosingFalls /\ InstancesFall
    BY SameClosing, SameInstances DEF DiscardWarm, BrokerInv
  <1> QED BY <1>2, <1>7, <1>8 DEF DiscardWarm

\* An activation whose VM is gone and whose row is released.
LEMMA DestroyedRun ==
    ASSUME BrokerInv, NEW b \in Brokers, NEW a \in Runs, vm' = Destroyed(vm, a, TRUE),
           row' = SetState(b, a, "released")
    PROVE  RowsOK' /\ RowsFall /\ VmsFall /\ EnvsFall
  <1>1. BrokerTypes /\ RowsOK /\ a \in Holders /\ a \notin Envs /\ a \notin Terminals
    BY ConstantTypes, SandboxBrokerAssumption DEF BrokerInv
  <1>2. Legal(a, "released")
    BY <1>1 DEF Legal
  <1>3. /\ RowsOK' /\ RowsFall
        /\ \A g \in Holders : /\ row'[g] = row[g] \/ g = a
                              /\ Held(g) => Held(g)' \/ g = a
    BY <1>1, <1>2, SetStateRows
  <1>4. VmsFall
    BY <1>1, FewerVms, <1>3, VmsStep
  <1>5. EnvsFall
    BY <1>1, <1>3, ConstantTypes DEF EnvsFall
  <1> QED BY <1>3, <1>4, <1>5

\* Discarding a warm Sandbox keeps the invariant.
LEMMA DiscardKeeps ==
    ASSUME BrokerInv, NEW b \in Brokers,
           \/ \E r \in Runs : CreateDiscards(b, r)
           \/ \E w \in Workspaces : ReapWarm(b, w) \/ ReapRetiredWarm(b, w)
    PROVE  BrokerInv'
  <1>1. BrokerTypes' /\ BrokerTypes /\ RowsOK
    BY DiscardTypes DEF BrokerInv
  <1>2. \E w \in Workspaces, ok \in BOOLEAN : up[b] /\ DiscardWarm(b, w, ok, row) /\ UNCHANGED <<flow, op>>
    BY ConstantTypes DEF CreateDiscards, ReapWarm, ReapRetiredWarm, Current
  <1>3. PICK w \in Workspaces, ok \in BOOLEAN : up[b] /\ DiscardWarm(b, w, ok, row) /\ UNCHANGED <<flow, op>>
    BY <1>2
  <1> DEFINE a == mem[b].warm[w].id
  <1>4. /\ a \in Runs /\ MemoryFalls /\ ClosingFalls /\ InstancesFall
        /\ vm' = Destroyed(vm, a, ok)
        /\ row' = IF ok THEN SetState(b, a, "released") ELSE row
    BY <1>3, DiscardFalls
  <1>5. FlowsFall
    BY <1>3, SameFlows
  <1>6. RowsOK' /\ RowsFall /\ VmsFall /\ EnvsFall
    BY <1>4, DestroyedRun, <1>1, SameRows, SameVms DEF Destroyed
  <1> QED BY <1>1, <1>4, <1>5, <1>6, OrdinaryStep DEF Ordinary

\* SetState on an activation or a terminal.
LEMMA SetKept ==
    ASSUME BrokerInv, NEW b \in Brokers, NEW h \in Runs \cup Terminals, NEW s, Legal(h, s),
           row' = SetState(b, h, s)
    PROVE  /\ RowsOK' /\ RowsFall /\ EnvsFall
           /\ \A g \in Holders : Held(g) => Held(g)' \/ (g = h /\ s = "released" /\ CanSet(b, h))
  <1>1. BrokerTypes /\ RowsOK /\ h \in Holders /\ h \notin Envs
    BY ConstantTypes, SandboxBrokerAssumption DEF BrokerInv
  <1>2. /\ RowsOK' /\ RowsFall
        /\ \A g \in Holders :
              /\ row'[g] = row[g] \/ g = h
              /\ Held(g) => Held(g)' \/ (g = h /\ s \in {"released", "failed"} /\ CanSet(b, h))
    BY <1>1, SetStateRows
  <1>3. EnvsFall
    BY <1>1, <1>2, ConstantTypes DEF EnvsFall
  <1>4. s # "failed"
    BY <1>1, SandboxBrokerAssumption DEF Legal, LiveActivation, LiveTerminal, Holders
  <1> QED BY <1>2, <1>3, <1>4

\* SetState on an environment whose start is given up.
LEMMA SetStarting ==
    ASSUME BrokerInv, NEW b \in Brokers, NEW e \in Envs, flow[e].by = b, NEW s, Legal(e, s),
           row' = SetState(b, e, s), flow'[e] = NoFlow, InstancesFall,
           \A c \in Brokers : e \in mem'[c].reaping => e \in mem[c].reaping
    PROVE  /\ RowsOK' /\ RowsFall /\ EnvsFall
           /\ CanSet(b, e) => row[e].state = "provisioning"
           /\ \A g \in Holders :
                 Held(g) => Held(g)' \/ (g = e /\ s \in {"released", "failed"} /\ CanSet(b, e))
  <1>1. BrokerTypes /\ RowsOK /\ e \in Holders
    BY ConstantTypes DEF BrokerInv
  <1>2. ASSUME CanSet(b, e) PROVE row[e].state = "provisioning"
    BY <1>1, FlowBy, <1>2 DEF BrokerInv, EnvFlows, CanSet
  <1>3. /\ RowsOK' /\ RowsFall
        /\ \A g \in Holders :
              /\ row'[g] = row[g] \/ (g = e /\ CanSet(b, e))
              /\ Held(g) => Held(g)' \/ (g = e /\ s \in {"released", "failed"} /\ CanSet(b, e))
    <2>1. e \in Envs /\ CanSet(b, e) => row[e].state # "failed"
      BY <1>2
    <2>2. /\ RowsOK' /\ RowsFall
          /\ \A g \in Holders :
                /\ \/ row'[g] = row[g]
                   \/ g = e /\ CanSet(b, e) /\ row'[g] = [row[g] EXCEPT !.state = s]
                /\ Held(g) => \/ Held(g)'
                              \/ g = e /\ s \in {"released", "failed"} /\ CanSet(b, e)
      BY <1>1, <2>1, SetStateRows
    <2> QED BY <2>2
  <1>4. EnvsFall
    BY <1>2, <1>3, ConstantTypes, NoneNothing DEF EnvsFall, BrokerInv, DownOK, EmptyMemory,
       InstancesFall, ReapOK
  <1> QED BY <1>2, <1>3, <1>4

\* A memory that holds no more reaps no more.
LEMMA ReapingStays ==
    ASSUME BrokerTypes, NEW b \in Brokers, NEW n, mem' = [mem EXCEPT ![b] = n], Sub(n, mem[b])
    PROVE  \A e \in Envs, c \in Brokers : e \in mem'[c].reaping => e \in mem[c].reaping
  BY DEF BrokerTypes, Sub

\* Evicting a warm Sandbox for admission keeps the invariant.
LEMMA EvictKeeps ==
    ASSUME BrokerInv, NEW b \in Brokers, NEW x \in Holders, EvictForAdmission(b, x)
    PROVE  BrokerInv'
  <1>1. BrokerTypes' /\ BrokerTypes /\ RowsOK
    BY EvictForAdmissionTypes DEF BrokerInv
  <1>2. flow[x].phase = "admit" /\ flow[x].by = b
    BY DEF EvictForAdmission
  <1>3. up[b] /\ flow[x] # NoFlow
    BY <1>2, FlowBy
  <1>4. PICK w \in Workspaces, ok \in BOOLEAN :
          /\ DiscardWarm(b, w, ok, IF x \in Runs THEN row ELSE SetState(b, x, GivenUp(x)))
          /\ IF ok THEN UNCHANGED <<flow, op>> ELSE RefuseAdmission(b, x)
    BY DEF EvictForAdmission, Evictable, Warm
  <1> DEFINE a == mem[b].warm[w].id
  <1>5. /\ a \in Runs /\ MemoryFalls /\ ClosingFalls /\ InstancesFall
        /\ vm' = Destroyed(vm, a, ok)
        /\ row' = IF ok THEN SetState(b, a, "released")
                  ELSE IF x \in Runs THEN row ELSE SetState(b, x, GivenUp(x))
    BY <1>3, <1>4, DiscardFalls
  <1>6. FlowsFall
    BY <1>4, SameFlows, <1>1, FlowEnds DEF RefuseAdmission
  <1>7. RowsOK' /\ RowsFall /\ VmsFall /\ EnvsFall
    <2>1. CASE ok
      BY <1>5, <2>1, DestroyedRun
    <2>2. CASE ~ok /\ x \in Runs
      BY <1>5, <2>2, <1>1, SameRows, SameVms DEF Destroyed
    <2>3. CASE ~ok /\ x \in Terminals
      BY <2>3, SandboxBrokerAssumption, <1>5, SetKept, SameVms DEF Legal, LiveTerminal, GivenUp,
         Destroyed
    <2>4. CASE ~ok /\ x \in Envs
      <3>1. Legal(x, "failed") /\ GivenUp(x) = "failed"
        BY <2>4, SandboxBrokerAssumption DEF Legal, GivenUp
      <3>2. row' = SetState(b, x, "failed") /\ UNCHANGED vm
        BY <1>5, <2>4, <3>1, SandboxBrokerAssumption DEF Destroyed
      <3>3. flow'[x] = NoFlow
        BY <1>1, <1>4, <2>4 DEF RefuseAdmission, BrokerTypes
      <3>4. \A c \in Brokers : x \in mem'[c].reaping => x \in mem[c].reaping
        BY <1>4, <2>4, <1>1, SubMemory, ReapingStays DEF DiscardWarm, BrokerTypes
      <3>5. /\ RowsOK' /\ RowsFall /\ EnvsFall
            /\ \A g \in Holders : Held(g) => Held(g)' \/ (g = x /\ CanSet(b, x))
        BY <1>2, <1>5, <2>4, <3>1, <3>2, <3>3, <3>4, SetStarting
      <3>6. CanSet(b, x) => ~Written(x)
        BY <1>2, <1>3, <2>4 DEF BrokerInv, EnvFlows, CanSet
      <3>7. VmsFall
        BY <3>2, <3>5, <3>6, SameVms
      <3> QED BY <3>5, <3>7
    <2> QED BY <2>1, <2>2, <2>3, <2>4 DEF Holders
  <1> QED BY <1>1, <1>5, <1>6, <1>7, OrdinaryStep DEF Ordinary

\* Beginning an operation or a fork keeps the invariant.
LEMMA EnterKeeps ==
    ASSUME BrokerInv, NEW b \in Brokers, NEW r \in Runs, Execute(b, r) \/ BeginFork(b, r)
    PROVE  BrokerInv'
  <1>1. BrokerTypes' /\ BrokerTypes /\ RowsOK /\ DownOK
    BY EnterTypes DEF BrokerInv
  <1>2. PICK a \in Runs, kind \in {"exec", "fork"} :
          mem[b].act[a].run = r /\ EnterMaterialize(b, a, r, kind)
    BY DEF Execute, BeginFork
  <1>3. UNCHANGED <<inst, up, vm, mem, closing>>
    BY DEF Execute, BeginFork
  <1>4. Knows(b, a)
    BY <1>2, NoneNothing, ConstantTypes DEF Knows, KnownIn
  <1>5. FlowsFall
    BY <1>2, <1>1, ConstantTypes, <1>4 DEF EnterMaterialize, BrokerTypes, FlowsFall, FlowsFallOn
  <1>6. RowsOK' /\ RowsFall /\ EnvsFall /\ \A g \in Holders : Held(g) => Held(g)'
    BY <1>2, <1>1, SameRows, SandboxBrokerAssumption, SetKept DEF EnterMaterialize, Legal,
       LiveActivation
  <1>7. VmsFall /\ MemoryFalls /\ ClosingFalls /\ InstancesFall
    BY <1>1, <1>3, <1>6, SameVms, SameMemory, SameClosing, SameInstances
  <1> QED BY <1>1, <1>5, <1>6, <1>7, OrdinaryStep DEF Ordinary

\* Admission and the end of a wait keep the invariant.
LEMMA AcquireKeeps ==
    ASSUME BrokerInv, NEW b \in Brokers, NEW x \in Holders,
           AcquireAdmission(b, x) \/ WaitEnds(b, x)
    PROVE  BrokerInv'
  <1>1. BrokerTypes' /\ BrokerTypes /\ RowsOK /\ DownOK
    BY AcquireAdmissionTypes, WaitTypes DEF BrokerInv
  <1>2. /\ UNCHANGED <<inst, up, row, vm, closing>>
        /\ flow[x].by = b /\ flow[x].phase \in {"admit", "wait"}
    BY DEF AcquireAdmission, WaitEnds
  <1>3. up[b] /\ flow[x] # NoFlow
    BY <1>2, FlowBy
  <1>4. FlowsFall
    BY ThePhases, <1>1, <1>2, <1>3, FlowEnds DEF AcquireAdmission, WaitEnds, RefuseAdmission
  <1>5. MemoryFalls
    <2>1. CASE AcquireAdmission(b, x)
      <3>1. PICK n : /\ mem' = [mem EXCEPT ![b] = n]
                     /\ \/ n = [mem[b] EXCEPT !.admitted = @ \cup {flow[x].id}]
                        \/ n = [mem[b] EXCEPT !.waiters = Append(@, flow[x].id)]
        BY <1>1, <2>1 DEF AcquireAdmission, BrokerTypes
      <3>2. mem[b] \in MemoryType
        BY <1>1 DEF BrokerTypes
      <3>3. /\ n.act = mem[b].act /\ n.warm = mem[b].warm /\ n.susp = mem[b].susp
            /\ n.open = mem[b].open /\ n.reaping = mem[b].reaping
        BY <3>1, <3>2 DEF MemoryType
      <3>4. Sub(n, mem[b])
        BY <3>3, SubSame
      <3> QED BY <1>1, <1>3, <3>1, <3>4, SubStep
    <2>2. CASE WaitEnds(b, x)
      BY <2>2, SameMemory DEF WaitEnds
    <2> QED BY <2>1, <2>2
  <1>6. /\ RowsOK' /\ RowsFall /\ EnvsFall /\ VmsFall /\ ClosingFalls /\ InstancesFall
    BY <1>1, <1>2, SameRows, SameVms, SameClosing, SameInstances
  <1> QED BY <1>1, <1>4, <1>5, <1>6, OrdinaryStep DEF Ordinary

\* Giving up a wait keeps the invariant.
LEMMA AbortKeeps ==
    ASSUME BrokerInv, NEW b \in Brokers, NEW r \in Runs, AbortWait(b, r)
    PROVE  BrokerInv'
  BY WaitTypes, ConstantTypes, FlowBy, FlowEnds, SubMemory, SubStep, SameRows, SameVms,
     SameClosing, SameInstances, OrdinaryStep DEF BrokerInv, AbortWait, RefuseAdmission,
     BrokerTypes, Ordinary

\* The catch of #materialize gives up what the call had, and no other row or VM.
LEMMA Materialized ==
    ASSUME BrokerInv, BrokerTypes', NEW b \in Brokers, NEW r \in Runs, flow[r].by = b,
           NEW m, Sub(m, mem[b]), NEW v, NEW why, NEW h, Fewer(v, h),
           FailMaterialize(b, r, m, v, why), UNCHANGED <<inst, up, closing>>
    PROVE  BrokerInv'
  <1> DEFINE a == flow[r].id
  <1>1. BrokerTypes /\ DownOK /\ r \in Holders /\ up[b] /\ a \in Runs
    BY FlowBy, ConstantTypes DEF BrokerInv
  <1>2. FlowsFall
    BY <1>1, FlowEnds DEF FailMaterialize
  <1>3. MemoryFalls
    BY <1>1, SubStep DEF FailMaterialize
  <1>4. Legal(a, "unknown")
    BY <1>1, SandboxBrokerAssumption DEF Legal, LiveActivation
  <1>5. RowsOK' /\ RowsFall /\ EnvsFall /\ \A g \in Holders : Held(g) => Held(g)'
    BY <1>1, <1>4, SetKept DEF FailMaterialize
  <1>6. VmsFall
    BY <1>5, VmsStep DEF FailMaterialize
  <1>7. ClosingFalls /\ InstancesFall
    BY <1>1, SameClosing, SameInstances
  <1> QED BY <1>2, <1>3, <1>5, <1>6, <1>7, OrdinaryStep DEF Ordinary

\* Providing the VM of an operation keeps the invariant.
LEMMA ProvideKeeps ==
    ASSUME BrokerInv, NEW b \in Brokers, NEW r \in Runs, Provide(b, r)
    PROVE  BrokerInv'
  <1> DEFINE a == flow[r].id
             m == mem[b]
             x == m.act[a]
             bare == [m EXCEPT !.act[a].handle = FALSE]
  <1>1. BrokerTypes' /\ BrokerTypes /\ RowsOK /\ DownOK /\ r \in Holders
    BY ProvideTypes, ConstantTypes DEF BrokerInv
  <1>2. UNCHANGED <<inst, up, closing>> /\ flow[r].by = b /\ flow[r].phase = "provide"
    BY DEF Provide
  <1>3. up[b] /\ flow[r] # NoFlow /\ a \in Runs /\ a \in Holders /\ m \in MemoryType
    BY <1>1, <1>2, FlowBy, ConstantTypes DEF BrokerTypes
  <1>4. Sub(ReleaseAdmission(m, a), m)
    BY <1>3, SubMemory
  <1>5. m.act[a].handle => bare \in MemoryType /\ Sub(bare, m) /\ Sub(ReleaseAdmission(bare, a), m)
    <2> SUFFICES ASSUME m.act[a].handle
                 PROVE  bare \in MemoryType /\ Sub(bare, m) /\ Sub(ReleaseAdmission(bare, a), m)
      OBVIOUS
    <2>1. x # NoAct /\ x \in ActType
      BY <1>3, NoneNothing DEF MemoryType
    <2>2. [x EXCEPT !.handle = FALSE] \in ActType
      BY <2>1 DEF ActType
    <2>3. bare = [m EXCEPT !.act[a] = [x EXCEPT !.handle = FALSE]]
      BY <1>3 DEF MemoryType
    <2>4. bare \in MemoryType
      BY <1>3, <2>2, <2>3, MemoryFields
    <2>5. Sub(bare, m)
      BY <1>3, <2>1, <2>3, SubMemory
    <2>6. Sub(ReleaseAdmission(bare, a), bare)
      BY <2>4, SubMemory
    <2> QED BY <2>4, <2>5, <2>6, SubTransitive
  <1>6. ClosingFalls /\ InstancesFall
    BY <1>1, <1>2, SameClosing, SameInstances
  <1>7. CASE FailMaterialize(b, r, ReleaseAdmission(m, a), vm, "cancelled")
    BY <1>1, <1>3, FewerVms, <1>2, <1>4, <1>7, Materialized
  <1>8. CASE flow' = [flow EXCEPT ![r].phase = "creating"] /\ UNCHANGED <<row, op, mem, vm, faults>>
    BY <1>1, <1>2, <1>3, <1>8, FlowEnds, ThePhases, ConstantTypes, SandboxBrokerAssumption,
       SameRows, SameVms, SameMemory, <1>6, OrdinaryStep DEF Ordinary
  <1>9. CASE /\ m.act[a].handle /\ Rebindable(b, a)
             /\ \E ok \in BOOLEAN :
                    /\ vm' = IF ok THEN Rebound(vm, a, r) ELSE [vm EXCEPT ![a] = NoVm]
                    /\ mem' = IF ok THEN mem ELSE [mem EXCEPT ![b] = bare]
                    /\ flow' = [flow EXCEPT ![r].phase = IF ok THEN "created" ELSE "creating"]
             /\ UNCHANGED <<row, op>>
    <2>1. PICK ok \in BOOLEAN :
                    /\ vm' = IF ok THEN Rebound(vm, a, r) ELSE [vm EXCEPT ![a] = NoVm]
                    /\ mem' = IF ok THEN mem ELSE [mem EXCEPT ![b] = bare]
                    /\ flow' = [flow EXCEPT ![r].phase = IF ok THEN "created" ELSE "creating"]
      BY <1>9
    <2>2. FlowsFall
      BY <1>1, <1>2, <1>3, <2>1, FlowEnds, ThePhases, ConstantTypes, SandboxBrokerAssumption
    <2>3. RowsOK' /\ RowsFall /\ EnvsFall /\ \A g \in Holders : Held(g) => Held(g)'
      BY <1>1, <1>9, SameRows
    <2>4. VmsFall
      BY <1>9, <1>1, <1>3, <2>1, FewerVms, <2>3, VmsStep DEF Rebindable
    <2>5. MemoryFalls
      <3>1. CASE ok
        BY <2>1, <3>1, SameMemory
      <3>2. CASE ~ok
        <4> HIDE DEF bare
        <4> QED BY <1>1, <1>3, <1>5, <1>9, <2>1, <3>2, SubStep
      <3> QED BY <3>1, <3>2
    <2> QED BY <1>1, <1>6, <2>2, <2>3, <2>4, <2>5, OrdinaryStep DEF Ordinary
  <1>10. CASE /\ m.act[a].handle
              /\ \E ok \in BOOLEAN :
                    FailMaterialize(b, r, IF ok THEN ReleaseAdmission(bare, a) ELSE m,
                                    Destroyed(vm, a, ok), "failed")
    <2>1. PICK ok \in BOOLEAN :
                    FailMaterialize(b, r, IF ok THEN ReleaseAdmission(bare, a) ELSE m,
                                    Destroyed(vm, a, ok), "failed")
      BY <1>10
    <2>2. Sub(IF ok THEN ReleaseAdmission(bare, a) ELSE m, mem[b])
      BY <1>3, <1>5, <1>10, SubMemory
    <2>3. \E h : Fewer(Destroyed(vm, a, ok), h)
      BY <1>1, <1>3, FewerVms
    <2> QED BY <1>1, <1>2, <2>1, <2>2, <2>3, Materialized
  <1> QED BY <1>7, <1>8, <1>9, <1>10 DEF Provide

\* A create that fails keeps the invariant.
LEMMA CreateFailsKeeps ==
    ASSUME BrokerInv, NEW b \in Brokers, NEW r \in Runs, CreateFails(b, r)
    PROVE  BrokerInv'
  BY CreateFailsTypes, ConstantTypes, FewerVms, SubMemory, Materialized DEF BrokerInv,
     BrokerTypes, CreateFails

\* Recording a VM as active or refusing it keeps the invariant.
LEMMA RecordActiveKeeps ==
    ASSUME BrokerInv, NEW b \in Brokers, NEW r \in Runs, RecordActive(b, r)
    PROVE  BrokerInv'
  <1> DEFINE a == flow[r].id
             x == mem[b].act[a]
             y == [x EXCEPT !.handle = TRUE, !.mat = TRUE]
             held == [mem[b] EXCEPT !.act[a].handle = TRUE, !.act[a].mat = TRUE]
  <1>1. BrokerTypes' /\ BrokerTypes /\ RowsOK /\ DownOK /\ r \in Holders
    BY RecordActiveTypes, ConstantTypes DEF BrokerInv
  <1>2. UNCHANGED <<inst, up, closing>> /\ flow[r].by = b /\ flow[r].phase = "created"
    BY DEF RecordActive
  <1>3. up[b] /\ flow[r] # NoFlow /\ a \in Runs /\ a \in Holders /\ mem[b] \in MemoryType
    BY <1>1, <1>2, FlowBy, ConstantTypes DEF BrokerTypes
  <1>4. StillMine(b, r) => held \in MemoryType /\ Sub(held, mem[b]) /\ Sub(ReleaseAdmission(held, a), mem[b])
    <2> SUFFICES ASSUME StillMine(b, r)
                 PROVE  held \in MemoryType /\ Sub(held, mem[b]) /\ Sub(ReleaseAdmission(held, a), mem[b])
      OBVIOUS
    <2>1. x # NoAct /\ x \in ActType
      BY <1>3, ConstantTypes, NoneNothing DEF StillMine, MemoryType
    <2>2. y \in ActType
      BY <2>1 DEF ActType
    <2>3. held = [mem[b] EXCEPT !.act[a] = y]
      BY <1>3, <2>1 DEF MemoryType, ActType
    <2>4. held \in MemoryType
      BY <1>3, <2>2, <2>3, MemoryFields
    <2>5. Sub(held, mem[b])
      BY <1>3, <2>1, <2>3, SubMemory
    <2>6. Sub(ReleaseAdmission(held, a), held)
      BY <2>4, SubMemory
    <2> QED BY <2>4, <2>5, <2>6, SubTransitive
  <1>5. CASE \E ok \in BOOLEAN :
                 FailMaterialize(b, r, ReleaseAdmission(mem[b], a), Discarded(vm, a, ok), "cancelled")
    <2>1. PICK ok \in BOOLEAN :
                 FailMaterialize(b, r, ReleaseAdmission(mem[b], a), Discarded(vm, a, ok), "cancelled")
      BY <1>5
    <2>2. Fewer(Discarded(vm, a, ok), a)
      BY <1>1, <1>3, FewerVms
    <2>3. Sub(ReleaseAdmission(mem[b], a), mem[b])
      BY <1>3, SubMemory
    <2> QED BY <1>1, <1>2, <2>1, <2>2, <2>3, Materialized
  <1>6. CASE /\ StillMine(b, r) /\ CanSet(b, a)
             /\ mem' = [mem EXCEPT ![b] = held]
             /\ row' = SetState(b, a, "active")
             /\ flow' = [flow EXCEPT ![r].phase = "exec"]
             /\ UNCHANGED <<op, vm, faults>>
    <2>1. MemoryFalls
      <3> HIDE DEF held
      <3> QED BY <1>1, <1>3, <1>4, <1>6, SubStep
    <2>2. FlowsFall
      BY <1>1, <1>2, <1>3, <1>6, FlowEnds, ThePhases, SandboxBrokerAssumption
    <2>3. Legal(a, "active")
      BY <1>3, SandboxBrokerAssumption DEF Legal, LiveActivation
    <2>4. RowsOK' /\ RowsFall /\ EnvsFall /\ \A g \in Holders : Held(g) => Held(g)'
      BY <1>3, <1>6, <2>3, SetKept
    <2>5. VmsFall /\ ClosingFalls /\ InstancesFall
      BY <1>1, <1>2, <1>6, <2>4, SameVms, SameClosing, SameInstances
    <2> QED BY <1>1, <2>1, <2>2, <2>4, <2>5, OrdinaryStep DEF Ordinary
  <1>7. CASE StillMine(b, r) /\ FailMaterialize(b, r, ReleaseAdmission(held, a), vm, "failed")
    BY <1>1, <1>3, FewerVms, <1>2, <1>4, <1>7, Materialized
  <1> QED BY <1>5, <1>6, <1>7 DEF RecordActive

\* Operations, captures and forks in the guest keep the invariant.
LEMMA GuestKeeps ==
    ASSUME BrokerInv, NEW b \in Brokers, NEW r \in Runs,
           Exec(b, r) \/ Capture(b, r) \/ ForkWorkspace(b, r)
    PROVE  BrokerInv'
  <1>1. BrokerTypes' /\ BrokerTypes /\ RowsOK /\ DownOK /\ r \in Holders
    BY GuestTypes, ConstantTypes DEF BrokerInv
  <1>2. UNCHANGED <<inst, up, row, mem, closing>>
    BY DEF Exec, Capture, ForkWorkspace
  <1>3. RowsOK' /\ RowsFall /\ EnvsFall /\ \A g \in Holders : Held(g) => Held(g)'
    BY <1>1, <1>2, SameRows
  <1>4. FlowsFall
    BY <1>1, FlowEnds, SameFlows DEF Exec, Capture, ForkWorkspace
  <1>5. \E h : Fewer(vm', h)
    <2>1. CASE Exec(b, r)
      <3>1. flow[r].id \in Holders
        BY <1>1, <2>1, FlowBy DEF Exec
      <3>2. vm' = vm \/ vm' = [vm EXCEPT ![flow[r].id] = NoVm]
        BY <2>1 DEF Exec
      <3> QED BY <1>1, <3>1, <3>2, FewerVms
    <2>2. CASE Capture(b, r)
      <3>1. PICK a \in Runs : /\ vm[a].state # "none"
                              /\ vm' = [vm EXCEPT ![a].state = "idle"] \/ vm' = [vm EXCEPT ![a] = NoVm]
        BY <2>2 DEF Capture, Owned
      <3>2. a \in Holders
        BY ConstantTypes
      <3>3. Fewer([vm EXCEPT ![a].state = "idle"], None) /\ Fewer([vm EXCEPT ![a] = NoVm], a)
        BY <1>1, <3>1, <3>2, FewerVms
      <3> QED BY <3>1, <3>3
    <2>3. CASE ForkWorkspace(b, r)
      <3>1. flow[r].id \in Holders
        BY <1>1, <2>3, FlowBy DEF ForkWorkspace
      <3>2. \/ vm' = vm
            \/ /\ vm[flow[r].id].state # "none"
               /\ vm' = Rebound(vm, flow[r].id, r) \/ vm' = [vm EXCEPT ![flow[r].id] = NoVm]
        BY <2>3 DEF ForkWorkspace, Owned
      <3> QED BY <1>1, <3>1, <3>2, FewerVms
    <2> QED BY <2>1, <2>2, <2>3
  <1>6. VmsFall
    BY <1>3, <1>5, VmsStep
  <1>7. MemoryFalls /\ ClosingFalls /\ InstancesFall
    BY <1>1, <1>2, SameMemory, SameClosing, SameInstances
  <1> QED BY <1>1, <1>3, <1>4, <1>6, <1>7, OrdinaryStep DEF Ordinary

\* Beginning a release keeps the invariant.
LEMMA ReleaseKeeps ==
    ASSUME BrokerInv, NEW b \in Brokers, NEW r \in Runs, NEW how \in Dispositions, Release(b, r, how)
    PROVE  BrokerInv'
  <1>1. BrokerTypes' /\ BrokerTypes /\ RowsOK /\ DownOK
    BY ReleaseTypes DEF BrokerInv
  <1>2. PICK a \in Runs :
            /\ up[b] /\ mem[b].act[a].run = r
            /\ mem' = [mem EXCEPT ![b] = Revoke(mem[b], a)]
            /\ closing' = [closing EXCEPT ![r] =
                          [how |-> how, by |-> b, id |-> a,
                           handle |-> mem[b].act[a].handle /\ ~Materializing(r)]]
    BY DEF Release
  <1>3. UNCHANGED <<inst, up, row, vm, flow>>
    BY DEF Release
  <1>4. Knows(b, a)
    BY <1>2, NoneNothing, ConstantTypes DEF Knows, KnownIn
  <1>5. ClosingFalls
    BY <1>1, <1>2, <1>4 DEF BrokerTypes, ClosingFalls
  <1>6. MemoryFalls
    BY <1>1, SubMemory, <1>2, SubStep DEF BrokerTypes
  <1>7. RowsOK' /\ RowsFall /\ EnvsFall /\ VmsFall /\ FlowsFall /\ InstancesFall
    BY <1>1, <1>3, SameRows, SameVms, SameFlows, SameInstances
  <1> QED BY <1>1, <1>5, <1>6, <1>7, OrdinaryStep DEF Ordinary

\* Stopping an activation the replica does not know keeps the invariant.
LEMMA StopUnknownKeeps ==
    ASSUME BrokerInv, NEW b \in Brokers, NEW r \in Runs, StopUnknown(b, r)
    PROVE  BrokerInv'
  <1>1. BrokerTypes' /\ BrokerTypes /\ RowsOK /\ DownOK
    BY StopUnknownTypes DEF BrokerInv
  <1>2. PICK a \in Runs : /\ vm' = [vm EXCEPT ![a] = NoVm]
                          /\ mem' = [mem EXCEPT ![b] = ReleaseAdmission(mem[b], a)]
    BY DEF StopUnknown
  <1>3. UNCHANGED <<inst, up, row, flow, closing>> /\ up[b]
    BY DEF StopUnknown
  <1>4. MemoryFalls
    BY <1>1, SubMemory, <1>2, <1>3, SubStep DEF BrokerTypes
  <1>5. RowsOK' /\ RowsFall /\ EnvsFall /\ FlowsFall /\ InstancesFall /\ ClosingFalls
        /\ \A g \in Holders : Held(g) => Held(g)'
    BY <1>1, <1>3, SameRows, SameFlows, SameInstances, SameClosing
  <1>6. VmsFall
    BY <1>1, <1>2, FewerVms, ConstantTypes, <1>5, VmsStep
  <1> QED BY <1>1, <1>4, <1>5, <1>6, OrdinaryStep DEF Ordinary

\* The end of a Run keeps the invariant.
LEMMA EndRunKeeps ==
    ASSUME BrokerInv, NEW r \in Runs, EndRun(r)
    PROVE  BrokerInv'
  BY EndRunTypes, SameRows, SameVms, SameFlows, SameInstances, SameClosing, SameMemory,
     OrdinaryStep DEF BrokerInv, EndRun, Ordinary

\* Terminating the runtime of a Run keeps the invariant.
LEMMA TerminateKeeps ==
    ASSUME BrokerInv, NEW b \in Brokers, NEW r \in Runs, TerminateAndConfirmAbsent(b, r)
    PROVE  BrokerInv'
  <1> DEFINE w(a) == WorkspaceOf[a]
             m1(a) == IF mem[b].act[a].handle THEN Revoke(mem[b], a) ELSE mem[b]
             m2(a) == IF m1(a).warm[w(a)].id = a THEN [m1(a) EXCEPT !.warm[w(a)] = NoWarm] ELSE m1(a)
  <1>1. BrokerTypes' /\ BrokerTypes /\ RowsOK /\ DownOK
    BY TerminateTypes DEF BrokerInv
  <1>2. PICK a \in Runs, ok \in BOOLEAN :
            /\ vm' = Destroyed(vm, a, ok)
            /\ mem' = [mem EXCEPT ![b] = IF ok THEN ReleaseAdmission(m2(a), a) ELSE m2(a)]
            /\ row' = IF ~ok THEN row ELSE
                       [h \in Holders |->
                          IF h = a /\ row[a].run = r /\ Live(a) /\ row[a].state # "unknown"
                          THEN [row[h] EXCEPT !.state = "released"]
                          ELSE IF h \in Terminals /\ row[h].owner = b /\ Live(h)
                          THEN [row[h] EXCEPT !.state = "unknown"] ELSE row[h]]
    BY DEF TerminateAndConfirmAbsent
  <1>3. /\ UNCHANGED <<inst, up, flow, closing>> /\ up[b]
        /\ mem[b] \in MemoryType /\ a \in Holders /\ w(a) \in Workspaces
    BY <1>1, ConstantTypes DEF TerminateAndConfirmAbsent, Current, BrokerTypes
  <1>4. m1(a) \in MemoryType /\ Sub(m1(a), mem[b])
    BY <1>3, RevokeType, SubMemory
  <1>5. m2(a) \in MemoryType /\ Sub(m2(a), m1(a))
    BY <1>3, <1>4, MemoryFields, NothingTypes, SubMemory
  <1>6. Sub(ReleaseAdmission(m2(a), a), m2(a))
    BY <1>5, SubMemory
  <1>7. MemoryFalls
    <2> HIDE DEF m1, m2
    <2>1. Sub(m2(a), mem[b])
      BY <1>4, <1>5, SubTransitive
    <2>2. Sub(ReleaseAdmission(m2(a), a), mem[b])
      BY <1>6, <2>1, SubTransitive
    <2> QED BY <1>1, <1>2, <1>3, <2>1, <2>2, SubStep
  <1>8. ASSUME NEW h \in Holders
        PROVE  \/ row'[h] = row[h]
               \/ h = a /\ ok /\ row'[h].state = "released" /\ row'[h].owner = row[h].owner
               \/ h \in Terminals /\ Held(h) /\ row'[h].state = "unknown"
    <2>1. row[h] \in RowType
      BY <1>1 DEF BrokerTypes
    <2>2. h \in Terminals /\ Live(h) => Held(h)
      BY SandboxBrokerAssumption DEF Held, Live, LiveTerminal
    <2> QED BY <1>2, <2>1, <2>2 DEF RowType
  <1>9. RowsOK' /\ EnvsFall
    BY <1>1, <1>8, SandboxBrokerAssumption, ConstantTypes DEF RowsOK, LiveTerminal, EnvsFall
  <1>10. \A h \in Holders : /\ Held(h)' => Held(h)
                            /\ Held(h) => Held(h)' \/ (h = a /\ ok)
    BY SandboxBrokerAssumption, <1>8 DEF Held, Live, LiveActivation, LiveTerminal
  <1>11. RowsFall
    BY <1>8, <1>10 DEF RowsFall
  <1>12. VmsFall
    <2>1. CASE ok
      <3>1. Fewer(vm', a)
        BY <1>1, <1>2, <1>3, <2>1, FewerVms
      <3> QED BY <1>10, <3>1, VmsStep
    <2>2. CASE ~ok
      BY <1>2, <2>2, <1>10, SameVms DEF Destroyed
    <2> QED BY <2>1, <2>2
  <1>13. FlowsFall /\ ClosingFalls /\ InstancesFall
    BY <1>1, <1>3, SameFlows, SameClosing, SameInstances
  <1> QED BY <1>1, <1>7, <1>9, <1>11, <1>12, <1>13, OrdinaryStep DEF Ordinary

\* Claiming the activation of an ended Run keeps the invariant.
LEMMA ClaimTerminalRunKeeps ==
    ASSUME BrokerInv, NEW b \in Brokers, NEW a \in Runs, ClaimTerminalRun(b, a)
    PROVE  BrokerInv'
  <1> DEFINE m == IF mem[b].act[a] = NoAct THEN mem[b] ELSE Revoke(mem[b], a)
             n == ReleaseAdmission(m, a)
             o == [n EXCEPT !.reaping = @ \cup {a}]
  <1>1. BrokerTypes' /\ BrokerTypes /\ RowsOK /\ DownOK
    BY ClaimTerminalRunTypes DEF BrokerInv
  <1>2. /\ UNCHANGED <<inst, up, vm, flow, closing>> /\ up[b]
        /\ mem[b] \in MemoryType /\ a \in Holders /\ a \notin Envs /\ a \notin Terminals
    BY <1>1, ConstantTypes, SandboxBrokerAssumption DEF ClaimTerminalRun, Current, BrokerTypes
  <1>3. m \in MemoryType /\ Sub(m, mem[b])
    BY <1>2, RevokeType, SubMemory
  <1>4. n \in MemoryType /\ Sub(n, mem[b])
    BY <1>3, ReleaseAdmissionType, SubMemory, SubTransitive
  <1>5. mem' = [mem EXCEPT ![b] = o]
    BY DEF ClaimTerminalRun
  <1>6. MemoryFalls
    <2> HIDE DEF n
    <2>1. mem'[b] = o /\ \A c \in Brokers : c # b => mem'[c] = mem[c]
      BY <1>1, <1>5 DEF BrokerTypes
    <2>2. /\ o.act = n.act /\ o.warm = n.warm /\ o.susp = n.susp /\ o.open = n.open
          /\ o.reaping = n.reaping \cup {a}
      BY <1>4 DEF MemoryType
    <2> HIDE DEF o
    <2>3. \A c \in Runs : KnownIn(mem'[b], c) => Knows(b, c)
      BY <1>4, <2>1, <2>2 DEF Sub, KnownIn, Knows
    <2>4. \A e \in Envs : /\ e \in mem'[b].open => e \in mem[b].open
                          /\ e \in mem'[b].reaping => e \in mem[b].reaping
      BY <1>2, <1>4, <2>1, <2>2 DEF Sub
    <2> QED BY <1>2, <2>1, <2>3, <2>4 DEF MemoryFalls, Knows
  <1>7. row' = [row EXCEPT ![a].state = "cleaning", ![a].owner = b]
        /\ row[a].state \in {"reserved", "materializing", "active"}
    BY DEF ClaimTerminalRun
  <1>8. row'[a].state = "cleaning" /\ \A h \in Holders : h # a => row'[h] = row[h]
    BY <1>1, <1>2, <1>7 DEF BrokerTypes, RowType
  <1>9. Held(a) /\ Held(a)'
    BY <1>2, <1>7, <1>8 DEF Held, Live, LiveActivation
  <1>10. \A h \in Holders : Held(h) <=> Held(h)'
    BY <1>8, <1>9 DEF Held, Live
  <1>11. RowsOK' /\ RowsFall /\ EnvsFall
    BY <1>1, <1>2, <1>8, <1>10, ConstantTypes DEF RowsOK, LiveActivation, RowsFall, EnvsFall
  <1>12. VmsFall /\ FlowsFall /\ ClosingFalls /\ InstancesFall
    BY <1>1, <1>2, <1>10, SameVms, SameFlows, SameClosing, SameInstances
  <1> QED BY <1>1, <1>6, <1>11, <1>12, OrdinaryStep DEF Ordinary

\* Claiming an orphaned row keeps the invariant.
LEMMA ClaimKeeps ==
    ASSUME BrokerInv, NEW b \in Brokers, NEW h \in Holders, ClaimOrphaned(b, h)
    PROVE  BrokerInv'
  <1>1. BrokerTypes' /\ BrokerTypes /\ RowsOK /\ DownOK
    BY ReapTypes DEF BrokerInv
  <1>2. /\ UNCHANGED <<inst, up, vm, flow, closing>> /\ up[b] /\ mem[b] \in MemoryType
        /\ row[h].state = "unknown"
    BY <1>1 DEF ClaimOrphaned, Current, BrokerTypes
  <1>3. row' = [row EXCEPT ![h].state = IF h \in Envs THEN "releasing" ELSE "cleaning", ![h].owner = b]
    BY DEF ClaimOrphaned
  <1>4. /\ row'[h].state = (IF h \in Envs THEN "releasing" ELSE "cleaning") /\ row'[h].owner = b
        /\ \A g \in Holders : g # h => row'[g] = row[g]
    BY <1>1, <1>3 DEF BrokerTypes, RowType
  <1>5. /\ mem'[b].act = mem[b].act /\ mem'[b].warm = mem[b].warm /\ mem'[b].susp = mem[b].susp
        /\ mem'[b].reaping = mem[b].reaping \cup {h}
        /\ mem'[b].open = IF h \in Envs THEN mem[b].open \ {h} ELSE mem[b].open
        /\ \A c \in Brokers : c # b => mem'[c] = mem[c]
    BY <1>1, <1>2 DEF BrokerTypes, ClaimOrphaned, MemoryType
  <1>6. MemoryFalls
    BY <1>5, <1>4, <1>2 DEF KnownIn, Knows, MemoryFalls
  <1>7. Held(h) /\ Held(h)'
    BY <1>2, <1>4, SandboxBrokerAssumption DEF Holders, Held, Live, LiveActivation, LiveTerminal,
       LiveEnvironment
  <1>8. \A g \in Holders : Held(g) <=> Held(g)'
    BY <1>4, <1>7 DEF Held, Live
  <1>9. RowsOK' /\ RowsFall
    BY <1>1, <1>4, SandboxBrokerAssumption, <1>8 DEF RowsOK, LiveActivation, LiveTerminal,
       LiveEnvironment, RowsFall
  <1>10. EnvsFall
    BY <1>2, <1>4, ConstantTypes, FlowBy, <1>5 DEF EnvsFall, Current, BrokerInv, EnvFlows, ReapOK
  <1>11. VmsFall /\ FlowsFall /\ ClosingFalls /\ InstancesFall
    BY <1>1, <1>2, <1>8, SameVms, SameFlows, SameClosing, SameInstances
  <1> QED BY <1>1, <1>6, <1>9, <1>10, <1>11, OrdinaryStep DEF Ordinary

\* Cleaning up what was claimed keeps the invariant.
LEMMA CleanUpKeeps ==
    ASSUME BrokerInv, NEW b \in Brokers, NEW h \in Holders, CleanUp(b, h)
    PROVE  BrokerInv'
  <1> DEFINE m == [mem[b] EXCEPT !.reaping = @ \ {h}]
  <1>1. BrokerTypes' /\ BrokerTypes /\ RowsOK /\ DownOK
    BY ReapTypes DEF BrokerInv
  <1>2. /\ UNCHANGED <<inst, up, flow, closing>> /\ mem[b] \in MemoryType
        /\ h \in mem[b].reaping
    BY <1>1 DEF CleanUp, BrokerTypes
  <1>3. up[b]
    BY <1>2 DEF BrokerInv, DownOK, EmptyMemory
  <1>4. PICK done \in BOOLEAN :
              /\ vm' = Destroyed(vm, h, done)
              /\ mem' = [mem EXCEPT ![b] = IF done /\ h \in Envs THEN ReleaseAdmission(m, h) ELSE m]
              /\ row' = SetState(b, h, IF ~done THEN "unknown"
                                       ELSE IF h \in Envs THEN "failed" ELSE "released")
    BY DEF CleanUp
  <1>5. m \in MemoryType /\ Sub(m, mem[b]) /\ m.reaping = mem[b].reaping \ {h}
    <2>1. mem[b].reaping \ {h} \in SUBSET Holders
      BY <1>2 DEF MemoryType
    <2>2. m \in MemoryType
      BY <1>2, <2>1, MemoryFields
    <2>3. /\ m.act = mem[b].act /\ m.warm = mem[b].warm /\ m.susp = mem[b].susp
          /\ m.open = mem[b].open /\ m.reaping = mem[b].reaping \ {h}
      BY <1>2 DEF MemoryType
    <2> QED BY <2>2, <2>3, SubSame
  <1> DEFINE n == IF done /\ h \in Envs THEN ReleaseAdmission(m, h) ELSE m
  <1>6. Sub(n, mem[b]) /\ n.reaping = mem[b].reaping \ {h}
    BY <1>5, SubMemory, ReleaseAdmissionType, SubTransitive
  <1>7. MemoryFalls /\ mem'[b].reaping = mem[b].reaping \ {h}
        /\ \A c \in Brokers : c # b => mem'[c] = mem[c]
    <2> HIDE DEF n, m
    <2>1. mem' = [mem EXCEPT ![b] = n]
      BY <1>4 DEF n
    <2>2. MemoryFalls
      BY <1>1, <1>3, <1>6, <2>1, SubStep
    <2> QED BY <1>1, <1>6, <2>1, <2>2 DEF BrokerTypes
  <1> DEFINE s == IF ~done THEN "unknown" ELSE IF h \in Envs THEN "failed" ELSE "released"
  <1>8. Legal(h, s)
    BY SandboxBrokerAssumption DEF Legal, LiveActivation, LiveTerminal, LiveEnvironment
  <1>9. ASSUME h \in Envs, CanSet(b, h)
        PROVE  row[h].state = "releasing" /\ row[h].owner = b
    BY <1>2, <1>9 DEF BrokerInv, ReapOK, CanSet
  <1>10. /\ RowsOK' /\ RowsFall
         /\ \A g \in Holders :
              /\ row'[g] = row[g] \/ (g = h /\ CanSet(b, h))
              /\ Held(g) => Held(g)' \/ (g = h /\ done)
    <2>1. h \in Envs /\ CanSet(b, h) => row[h].state # "failed"
      BY <1>9
    <2>2. row' = SetState(b, h, s)
      BY <1>4
    <2>3. ~done => s \notin {"released", "failed"}
      OBVIOUS
    <2> HIDE DEF s
    <2>4. /\ RowsOK' /\ RowsFall
           /\ \A g \in Holders :
                 /\ \/ row'[g] = row[g]
                    \/ g = h /\ CanSet(b, h) /\ row'[g] = [row[g] EXCEPT !.state = s]
                 /\ Held(g) => \/ Held(g)'
                               \/ g = h /\ s \in {"released", "failed"} /\ CanSet(b, h)
      BY <1>1, <1>8, <2>1, <2>2, SetStateRows
    <2> QED BY <2>3, <2>4
  <1>11. EnvsFall
    BY <1>2, <1>9, <1>10, ConstantTypes, FlowBy, <1>7 DEF EnvsFall, Current, BrokerInv, EnvFlows,
       ReapOK
  <1>12. VmsFall
    <2>1. CASE done
      <3>1. Fewer(vm', h)
        BY <1>1, <1>4, <2>1, FewerVms
      <3> QED BY <1>10, <3>1, VmsStep
    <2>2. CASE ~done
      BY <1>4, <2>2, <1>10, SameVms DEF Destroyed
    <2> QED BY <2>1, <2>2
  <1>13. FlowsFall /\ ClosingFalls /\ InstancesFall
    BY <1>1, <1>2, SameFlows, SameClosing, SameInstances
  <1> QED BY <1>1, <1>7, <1>10, <1>11, <1>12, <1>13, OrdinaryStep DEF Ordinary

\* A start that fails gives its slot, VM and row up.
LEMMA FailHolderKeeps ==
    ASSUME BrokerInv, BrokerTypes', NEW b \in Brokers, NEW x \in Terminals \cup Envs,
           NEW v, FailHolder(b, x, v), flow[x].by = b,
           \/ Fewer(v, x)
           \/ v = vm /\ (x \in Envs => flow[x].phase # "created"),
           UNCHANGED <<inst, up, closing>>
    PROVE  BrokerInv'
  <1>1. BrokerTypes /\ RowsOK /\ DownOK /\ x \in Holders /\ mem[b] \in MemoryType
    BY ConstantTypes DEF BrokerInv, BrokerTypes
  <1>2. up[b] /\ flow[x] # NoFlow
    BY <1>1, FlowBy
  <1>3. Sub(ReleaseAdmission(mem[b], x), mem[b])
    BY <1>1, SubMemory
  <1>4. MemoryFalls /\ \A e \in Envs, c \in Brokers : e \in mem'[c].reaping => e \in mem[c].reaping
    BY <1>1, <1>2, <1>3, SubStep, ReapingStays DEF FailHolder, BrokerTypes
  <1>5. FlowsFall /\ flow'[x] = NoFlow
    BY <1>1, FlowEnds DEF FailHolder, BrokerTypes
  <1>6. ClosingFalls /\ InstancesFall
    BY <1>1, SameClosing, SameInstances
  <1>7. /\ RowsOK' /\ RowsFall /\ EnvsFall
        /\ \A g \in Holders : Held(g) => Held(g)' \/ (g = x /\ x \in Envs /\ CanSet(b, x))
    BY SandboxBrokerAssumption, SetKept, <1>4, <1>5, <1>6, SetStarting DEF FailHolder, Legal,
       LiveTerminal, GivenUp
  <1>8. VmsFall
    BY <1>7, VmsStep, <1>2, SameVms DEF FailHolder, BrokerInv, EnvFlows, CanSet
  <1> QED BY <1>1, <1>4, <1>5, <1>6, <1>7, <1>8, OrdinaryStep DEF Ordinary

\* Providing, failing and recording a terminal or an environment keeps the invariant.
LEMMA HolderKeeps ==
    ASSUME BrokerInv, NEW b \in Brokers, NEW x \in Terminals \cup Envs,
           ProvideHolder(b, x) \/ CreateHolderFails(b, x) \/ RecordHolder(b, x)
    PROVE  BrokerInv'
  <1>1. /\ BrokerTypes' /\ BrokerTypes /\ RowsOK /\ DownOK /\ x \in Holders /\ x \notin Runs
        /\ mem[b] \in MemoryType
    BY HolderTypes, ConstantTypes, SandboxBrokerAssumption DEF BrokerInv, BrokerTypes
  <1>2. UNCHANGED <<inst, up, closing>> /\ flow[x].by = b
    BY DEF ProvideHolder, CreateHolderFails, RecordHolder
  <1>3. up[b] /\ flow[x] # NoFlow /\ ClosingFalls /\ InstancesFall
    BY <1>1, <1>2, FlowBy, SameClosing, SameInstances
  <1>4. CASE ProvideHolder(b, x)
    BY <1>4, ThePhases, <1>1, <1>3, FlowEnds, SameRows, SameVms, SameMemory, OrdinaryStep DEF
       ProvideHolder, Ordinary
  <1>5. CASE CreateHolderFails(b, x)
    BY <1>1, <1>2, <1>5, FailHolderKeeps DEF CreateHolderFails
  <1>6. CASE \E ok \in BOOLEAN : FailHolder(b, x, Discarded(vm, x, ok))
    BY <1>6, <1>1, FewerVms, <1>2, FailHolderKeeps
  <1>7. CASE /\ CanSet(b, x)
             /\ row' = SetState(b, x, IF x \in Envs THEN "running" ELSE "active")
             /\ mem' = [mem EXCEPT ![b].open = @ \cup {x}]
             /\ flow' = [flow EXCEPT ![x] = NoFlow]
             /\ UNCHANGED <<vm, faults>>
    <2>1. FlowsFall /\ flow'[x] = NoFlow
      BY <1>1, <1>7, FlowEnds DEF BrokerTypes
    <2>2. /\ mem'[b].act = mem[b].act /\ mem'[b].warm = mem[b].warm /\ mem'[b].susp = mem[b].susp
          /\ mem'[b].reaping = mem[b].reaping /\ mem'[b].open = mem[b].open \cup {x}
          /\ \A c \in Brokers : c # b => mem'[c] = mem[c]
      BY <1>1, <1>7 DEF BrokerTypes, MemoryType
    <2>3. x \in Envs => x \notin mem[b].reaping /\ row[x].state = "provisioning"
      BY <1>2, <1>3, <1>7 DEF BrokerInv, EnvFlows, CanSet, ReapOK
    <2>4. MemoryFalls
      BY <2>2, <1>3, <2>1, <2>3 DEF KnownIn, Knows, MemoryFalls
    <2>5. RowsOK' /\ RowsFall /\ EnvsFall /\ \A g \in Holders : Held(g) => Held(g)'
      BY <1>7, SandboxBrokerAssumption, SetKept, <2>2, <1>2, <1>3, <2>1, SetStarting DEF Legal,
         LiveTerminal, LiveEnvironment
    <2>6. VmsFall
      BY <1>7, <2>5, SameVms
    <2> QED BY <1>1, <1>3, <2>1, <2>4, <2>5, <2>6, OrdinaryStep DEF Ordinary
  <1> QED BY <1>4, <1>5, <1>6, <1>7 DEF RecordHolder

\* Closing a terminal keeps the invariant.
LEMMA CloseTerminalKeeps ==
    ASSUME BrokerInv, NEW b \in Brokers, NEW t \in Terminals, CloseTerminal(b, t)
    PROVE  BrokerInv'
  <1> DEFINE m == [mem[b] EXCEPT !.open = @ \ {t}]
  <1>1. BrokerTypes' /\ BrokerTypes /\ RowsOK /\ DownOK /\ t \in Holders /\ mem[b] \in MemoryType
    BY CloseTerminalTypes, ConstantTypes DEF BrokerInv, BrokerTypes
  <1>2. UNCHANGED <<inst, up, flow, closing>> /\ up[b]
    BY DEF CloseTerminal
  <1>3. PICK ok \in BOOLEAN :
            /\ vm' = Destroyed(vm, t, ok)
            /\ mem' = [mem EXCEPT ![b] = IF ok THEN ReleaseAdmission(m, t) ELSE m]
            /\ row' = SetState(b, t, IF ok THEN "released" ELSE "unknown")
    BY DEF CloseTerminal
  <1>4. m \in MemoryType /\ Sub(m, mem[b])
    <2>1. mem[b].open \ {t} \in SUBSET Holders
      BY <1>1 DEF MemoryType
    <2>2. m \in MemoryType
      BY <1>1, <2>1, MemoryFields
    <2>3. /\ m.act = mem[b].act /\ m.warm = mem[b].warm /\ m.susp = mem[b].susp
          /\ m.open = mem[b].open \ {t} /\ m.reaping = mem[b].reaping
      BY <1>1 DEF MemoryType
    <2> QED BY <2>2, <2>3, SubSame
  <1> DEFINE n == IF ok THEN ReleaseAdmission(m, t) ELSE m
  <1>5. Sub(n, mem[b])
    BY <1>4, SubMemory, SubTransitive
  <1>6. MemoryFalls
    <2> HIDE DEF n, m
    <2>1. mem' = [mem EXCEPT ![b] = n]
      BY <1>3 DEF n
    <2> QED BY <1>1, <1>2, <1>5, <2>1, SubStep
  <1>7. RowsOK' /\ RowsFall /\ EnvsFall /\ \A g \in Holders : Held(g) => Held(g)' \/ (g = t /\ ok)
    <2> DEFINE s == IF ok THEN "released" ELSE "unknown"
    <2>1. Legal(t, s) /\ row' = SetState(b, t, s) /\ (s = "released" => ok)
      BY <1>3, SandboxBrokerAssumption DEF Legal, LiveTerminal
    <2> HIDE DEF s
    <2> QED BY <2>1, SetKept
  <1>8. VmsFall
    <2>1. CASE ok
      <3>1. Fewer(vm', t)
        BY <1>1, <1>3, <2>1, FewerVms
      <3> QED BY <1>7, <3>1, VmsStep
    <2>2. CASE ~ok
      BY <1>3, <2>2, <1>7, SameVms DEF Destroyed
    <2> QED BY <2>1, <2>2
  <1>9. FlowsFall /\ ClosingFalls /\ InstancesFall
    BY <1>1, <1>2, SameFlows, SameClosing, SameInstances
  <1> QED BY <1>1, <1>6, <1>7, <1>8, <1>9, OrdinaryStep DEF Ordinary

\* Requesting and withdrawing an environment keep the invariant.
LEMMA RequestKeeps ==
    ASSUME BrokerInv, NEW e \in Envs,
           RequestEnvironment(e) \/ WithdrawEnvironment(e) \/ WithdrawCommits(e)
    PROVE  BrokerInv'
  <1>1. /\ BrokerTypes' /\ BrokerTypes /\ RowsOK /\ DownOK /\ e \in Holders
        /\ e \notin Runs /\ e \notin Terminals
    BY EnvironmentTypes, ConstantTypes, SandboxBrokerAssumption DEF BrokerInv
  <1>2. UNCHANGED <<inst, up, mem, flow, closing>>
    BY DEF RequestEnvironment, WithdrawEnvironment, WithdrawCommits
  <1>3. MemoryFalls /\ FlowsFall /\ ClosingFalls /\ InstancesFall
    BY <1>1, <1>2, SameMemory, SameFlows, SameClosing, SameInstances
  <1>4. CASE RequestEnvironment(e)
    <2>1. /\ UNCHANGED vm /\ row[e].state \in {"none", "failed"}
          /\ row' = [row EXCEPT ![e].state = "requested", ![e].owner = None]
      BY <1>4 DEF RequestEnvironment
    <2>2. /\ row'[e].state = "requested" /\ row'[e].owner = None
          /\ \A g \in Holders : g # e => row'[g] = row[g]
      BY <1>1, <2>1 DEF BrokerTypes, RowType
    <2>3. ~Held(e) /\ ~Held(e)'
      BY <1>1, <2>1, <2>2 DEF Held, Live, LiveEnvironment
    <2>4. \A g \in Holders : Held(g) <=> Held(g)'
      BY <2>2, <2>3 DEF Held, Live
    <2>5. RowsOK' /\ RowsFall
      BY <1>1, <2>2, <2>4 DEF RowsOK, RowsFall, LiveEnvironment
    <2>6. EnvsFall
      <3> SUFFICES ASSUME NEW f \in Envs, row'[f] # row[f], NEW c \in Brokers, Current(c)'
                   PROVE  flow'[f].by # c /\ f \notin mem'[c].reaping
        BY DEF EnvsFall
      <3>1. f = e /\ Current(c)
        BY <1>2, <2>2, ConstantTypes DEF Current
      <3>2. flow[e].by # c
        BY <1>1, FlowBy, <2>1, <3>1 DEF BrokerInv, EnvFlows
      <3>3. e \notin mem[c].reaping
        BY <2>1, <3>1 DEF BrokerInv, ReapOK
      <3> QED BY <1>2, <3>1, <3>2, <3>3
    <2>7. VmsFall
      BY <2>1, <2>4, SameVms
    <2> QED BY <1>1, <1>3, <2>5, <2>6, <2>7, OrdinaryStep DEF Ordinary
  <1>5. CASE WithdrawEnvironment(e)
    BY <1>5, <1>1, SameRows, SameVms, <1>3, OrdinaryStep DEF WithdrawEnvironment, Ordinary
  <1>6. CASE WithdrawCommits(e)
    <2>1. row' = [row EXCEPT ![e].state = "released", ![e].owner = None]
      BY <1>6 DEF WithdrawCommits
    <2>2. /\ row'[e].state = "released" /\ row'[e].owner = None
          /\ \A g \in Holders : g # e => row'[g] = row[g]
      BY <1>1, <2>1 DEF BrokerTypes, RowType
    <2>3. ~Held(e)'
      BY <1>1, <2>2 DEF Held, Live, LiveEnvironment
    <2>4. \A g \in Holders : g # e => (Held(g) <=> Held(g)')
      BY <2>2 DEF Held, Live
    <2>5. RowsOK' /\ RowsFall
      BY <1>1, <2>2, <2>3, <2>4 DEF RowsOK, RowsFall
    <2>6. EnvsFall
      BY <2>2, ConstantTypes DEF EnvsFall
    <2>7. Fewer(vm', e)
      <3>1. CASE vm[e].state = "none"
        BY <1>1, <1>6, <3>1 DEF WithdrawCommits, Fewer, Written, Up
      <3>2. CASE vm[e].state # "none"
        BY <1>6, <3>2, <1>1, FewerVms DEF WithdrawCommits
      <3> QED BY <3>1, <3>2
    <2>8. VmsFall
      BY <2>4, <2>7, VmsStep
    <2> QED BY <1>1, <1>3, <2>5, <2>6, <2>8, OrdinaryStep DEF Ordinary
  <1> QED BY <1>4, <1>5, <1>6

\* SetState on an environment that is open.
LEMMA OwnedEnvironment ==
    ASSUME BrokerInv, NEW b \in Brokers, NEW e \in Envs, OwnsEnvironment(b, e),
           NEW s, Legal(e, s), row' = SetState(b, e, s), UNCHANGED <<inst, up, flow>>,
           \A c \in Brokers : e \in mem'[c].reaping => e \in mem[c].reaping
    PROVE  /\ RowsOK' /\ RowsFall /\ EnvsFall
           /\ \A g \in Holders : Held(g) => Held(g)' \/ (g = e /\ s \in {"released", "failed"})
  <1>1. BrokerTypes /\ RowsOK /\ e \in Holders
    BY ConstantTypes DEF BrokerInv
  <1>2. /\ Current(b) /\ e \in mem[b].open /\ row[e].owner = b
        /\ row[e].state \notin {"requested", "released", "failed"}
    BY DEF OwnsEnvironment
  <1>3. /\ RowsOK' /\ RowsFall
        /\ \A g \in Holders :
              /\ \/ row'[g] = row[g]
                 \/ g = e /\ CanSet(b, e) /\ row'[g] = [row[g] EXCEPT !.state = s]
              /\ Held(g) => Held(g)' \/ (g = e /\ s \in {"released", "failed"} /\ CanSet(b, e))
    BY <1>1, <1>2, SetStateRows
  <1>4. EnvsFall
    <2> SUFFICES ASSUME NEW f \in Envs, row'[f] # row[f], NEW c \in Brokers, Current(c)'
                 PROVE  flow'[f].by # c /\ f \notin mem'[c].reaping
      BY DEF EnvsFall
    <2>1. f = e /\ Current(c)
      BY <1>3, ConstantTypes DEF Current
    <2>2. flow[e].by # c
      BY <1>1, FlowBy, <1>2, <2>1 DEF BrokerInv, EnvFlows
    <2>3. e \notin mem[c].reaping
      BY <1>2, <2>1 DEF BrokerInv, ReapOK
    <2> QED BY <2>1, <2>2, <2>3
  <1> QED BY <1>3, <1>4

\* Pausing, resuming, releasing and attaching to an environment keeps the invariant.
LEMMA OwnedEnvironmentKeeps ==
    ASSUME BrokerInv, NEW b \in Brokers, NEW e \in Envs,
           \/ PauseEnvironment(b, e) \/ ResumeEnvironment(b, e)
           \/ ReleaseEnvironment(b, e) \/ AttachPty(b, e)
    PROVE  BrokerInv'
  <1>1. BrokerTypes' /\ BrokerTypes /\ RowsOK /\ DownOK /\ e \in Holders /\ mem[b] \in MemoryType
    BY OwnedEnvironmentTypes, ConstantTypes DEF BrokerInv, BrokerTypes
  <1>2. UNCHANGED <<inst, up, flow, closing>>
    BY DEF PauseEnvironment, ResumeEnvironment, ReleaseEnvironment, AttachPty
  <1>3. FlowsFall /\ ClosingFalls /\ InstancesFall
    BY <1>1, <1>2, SameFlows, SameClosing, SameInstances
  <1>4. ASSUME NEW s \in {"paused", "running", "unknown"}, OwnsEnvironment(b, e), UNCHANGED mem,
               row' = SetState(b, e, s), Fewer(vm', None)
        PROVE  BrokerInv'
    BY SandboxBrokerAssumption, <1>2, <1>4, OwnedEnvironment, VmsStep, SameMemory, <1>1, <1>3,
       OrdinaryStep DEF Legal, LiveEnvironment, Ordinary
  <1>5. CASE PauseEnvironment(b, e)
    BY <1>5, <1>1, FewerVms, <1>4 DEF PauseEnvironment
  <1>6. CASE ResumeEnvironment(b, e)
    BY <1>6, <1>1, FewerVms, <1>4 DEF ResumeEnvironment
  <1>7. CASE ReleaseEnvironment(b, e)
    <2> DEFINE m == [mem[b] EXCEPT !.open = @ \ {e}, !.ptys = @ \ {e}]
    <2>1. OwnsEnvironment(b, e) /\ up[b]
      BY <1>7 DEF ReleaseEnvironment, OwnsEnvironment, Current
    <2>2. PICK ok \in BOOLEAN :
              /\ vm' = Destroyed(vm, e, ok)
              /\ mem' = IF ok THEN [mem EXCEPT ![b] = ReleaseAdmission(m, e)] ELSE mem
              /\ row' = SetState(b, e, IF ok THEN "released" ELSE "unknown")
      BY <1>7 DEF ReleaseEnvironment
    <2>3. CASE ~ok
      BY <1>1, <2>2, <2>3, FewerVms, <1>4, <2>1
    <2>4. CASE ok
      <3>1. m \in MemoryType /\ Sub(m, mem[b])
        <4> DEFINE n == [mem[b] EXCEPT !.open = mem[b].open \ {e}]
        <4>1. mem[b].open \ {e} \in SUBSET Holders /\ mem[b].ptys \ {e} \in SUBSET Holders
          BY <1>1 DEF MemoryType
        <4>2. n \in MemoryType
          BY <1>1, <4>1, MemoryFields
        <4>3. [n EXCEPT !.ptys = mem[b].ptys \ {e}] \in MemoryType
          BY <4>1, <4>2, MemoryFields
        <4>4. m = [n EXCEPT !.ptys = mem[b].ptys \ {e}]
          BY <1>1 DEF MemoryType
        <4>5. /\ m.act = mem[b].act /\ m.warm = mem[b].warm /\ m.susp = mem[b].susp
              /\ m.open = mem[b].open \ {e} /\ m.reaping = mem[b].reaping
          BY <1>1 DEF MemoryType
        <4> QED BY <4>3, <4>4, <4>5, SubSame
      <3> HIDE DEF m
      <3>2. Sub(ReleaseAdmission(m, e), mem[b])
        BY <3>1, SubMemory, SubTransitive
      <3>3. mem' = [mem EXCEPT ![b] = ReleaseAdmission(m, e)]
        BY <2>2, <2>4
      <3>4. MemoryFalls /\ \A c \in Brokers : e \in mem'[c].reaping => e \in mem[c].reaping
        BY <1>1, <2>1, <3>2, <3>3, SubStep, ReapingStays
      <3>5. Legal(e, "released") /\ row' = SetState(b, e, "released")
        BY <2>2, <2>4 DEF Legal
      <3>6. RowsOK' /\ RowsFall /\ EnvsFall /\ \A g \in Holders : Held(g) => Held(g)' \/ g = e
        BY <1>2, <2>1, <3>4, <3>5, OwnedEnvironment
      <3>7. Fewer(vm', e)
        BY <1>1, <2>2, <2>4, FewerVms
      <3>8. VmsFall
        BY <3>6, <3>7, VmsStep
      <3> QED BY <1>1, <1>3, <3>4, <3>6, <3>8, OrdinaryStep DEF Ordinary
    <2> QED BY <2>3, <2>4
  <1>8. CASE AttachPty(b, e)
    <2>1. /\ UNCHANGED row /\ UNCHANGED vm
          /\ \/ Current(b) /\ mem' = [mem EXCEPT ![b].ptys = @ \cup {e}]
             \/ e \in mem[b].ptys /\ mem' = [mem EXCEPT ![b].ptys = @ \ {e}]
      BY <1>8 DEF AttachPty, OwnsEnvironment
    <2>2. up[b]
      BY <1>1, <2>1 DEF Current, DownOK, EmptyMemory
    <2>3. PICK S : mem' = [mem EXCEPT ![b] = [mem[b] EXCEPT !.ptys = S]]
      BY <1>1, <2>1 DEF BrokerTypes
    <2>4. Sub([mem[b] EXCEPT !.ptys = S], mem[b])
      BY <1>1, SubSame DEF MemoryType
    <2>5. MemoryFalls
      BY <1>1, <2>2, <2>3, <2>4, SubStep
    <2>6. RowsOK' /\ RowsFall /\ EnvsFall /\ VmsFall
      BY <1>1, <2>1, SameRows, SameVms
    <2> QED BY <1>1, <1>3, <2>5, <2>6, OrdinaryStep DEF Ordinary
  <1> QED BY <1>5, <1>6, <1>7, <1>8
-----------------------------------------------------------------------------
(* The steps that reserve a Workspace *)

\* Who may reserve is alone: no other row holds the Workspace.
LEMMA ReserveAlone ==
    ASSUME BrokerInv, NEW b \in Brokers, NEW a \in Runs, NEW r, NEW same, Reserve(b, a, r, same)
    PROVE  /\ Current(b)
           /\ \A g \in Holders : Held(g) /\ WorkspaceOf[g] = WorkspaceOf[a] => g = a
           /\ row[a].state = "none" \/ row[a].owner = b
  BY DEF At, Held, Reserve, LiveOf, Holders

\* A reservation changes one row, which then holds the Workspace.
LEMMA ReservedRows ==
    ASSUME BrokerInv, NEW b \in Brokers, NEW a \in Runs, NEW r, row' = Reserved(b, a, r)
    PROVE  /\ row'[a].state = "reserved" /\ row'[a].owner = b /\ Held(a)'
           /\ \A g \in Holders : g # a => row'[g] = row[g] /\ (Held(g) <=> Held(g)')
           /\ RowsOK' /\ EnvsFall /\ \A g \in Holders : row[g].state # "none" => row'[g].state # "none"
  BY SandboxBrokerAssumption, ConstantTypes DEF BrokerInv, BrokerTypes, Holders, Reserved, Held,
     Live, LiveActivation, RowsOK, EnvsFall

\* A reservation keeps all of the invariant but the homes of activations.
LEMMA ReservedStep ==
    ASSUME BrokerInv, BrokerTypes', NEW b \in Brokers, NEW a \in Runs, NEW r, NEW same,
           Reserve(b, a, r, same), row' = Reserved(b, a, r), Fewer(vm', None),
           FlowsFall, MemoryKept, InstancesFall
    PROVE  /\ RowsOK' /\ FlowsOK' /\ DownOK' /\ EnvFlows' /\ ReapOK' /\ VmHeld' /\ HeldAlone'
           /\ VmsFall
           /\ FlowsFallOn(Runs) /\ \A g \in Holders : row[g].state # "none" => row'[g].state # "none"
  BY ReserveAlone, ReservedRows, VmsStep, FlowsFallRetire, ConstantTypes, FlowsFrame, DownFrame,
     EnvFrame DEF VmsFall, BrokerInv, VmHeld, HeldAlone, Retiring, FlowsFall, FlowsFallOn, FlowsOK

\* A reservation that comes with no new memory keeps the invariant.
LEMMA ReservedKeeps ==
    ASSUME BrokerInv, BrokerTypes', NEW b \in Brokers, NEW a \in Runs, NEW r, NEW same,
           Reserve(b, a, r, same), row' = Reserved(b, a, r), Fewer(vm', None),
           FlowsFall, MemoryFalls, ClosingFalls, InstancesFall
    PROVE  BrokerInv'
  BY MemoryFallsKept, ReservedStep, HomesFrame DEF BrokerInv

\* A Run nobody has opened has no activation of its name.
QueuedOK == \A r \in Runs : run[r] = "queued" => row[r].state = "none"

\* A first activation keeps the invariant.
LEMMA CreateColdKeeps ==
    ASSUME BrokerInv, QueuedOK, NEW b \in Brokers, NEW r \in Runs, CreateCold(b, r)
    PROVE  BrokerInv'
  <1> DEFINE n == [mem[b] EXCEPT !.act[r] = Activation(r, FALSE)]
  <1>1. BrokerTypes' /\ BrokerTypes /\ RowsOK /\ DownOK /\ r \in Holders /\ mem[b] \in MemoryType
    BY CreateColdTypes, ConstantTypes DEF BrokerInv, BrokerTypes
  <1>2. /\ UNCHANGED <<inst, up, vm, flow, closing>> /\ up[b] /\ run[r] = "queued"
        /\ Reserve(b, r, r, FALSE) /\ row' = Reserved(b, r, r) /\ mem' = [mem EXCEPT ![b] = n]
    BY <1>1 DEF CreateCold, BrokerTypes
  <1>3. /\ n.warm = mem[b].warm /\ n.susp = mem[b].susp /\ n.open = mem[b].open
        /\ n.reaping = mem[b].reaping /\ \A a \in Runs : a # r => n.act[a] = mem[b].act[a]
    BY <1>1 DEF MemoryType
  <1> HIDE DEF n
  <1>4. mem'[b] = n /\ \A c \in Brokers : c # b => mem'[c] = mem[c]
    BY <1>1, <1>2 DEF BrokerTypes
  <1>5. MemoryKept
    BY <1>2, <1>3, <1>4 DEF MemoryKept
  <1>6. FlowsFall /\ InstancesFall /\ Fewer(vm', None)
    BY <1>1, FewerVms, <1>2, SameFlows, SameInstances
  <1>7. /\ RowsOK' /\ FlowsOK' /\ DownOK' /\ EnvFlows' /\ ReapOK' /\ VmHeld' /\ HeldAlone'
        /\ \A g \in Holders : row[g].state # "none" => row'[g].state # "none"
    BY <1>1, <1>2, <1>5, <1>6, ReservedStep
  <1>8. row[r].state = "none"
    BY <1>2 DEF QueuedOK
  <1>9. ~Held(r) /\ ~Written(r) /\ \A c \in Brokers : ~Knows(c, r)
    BY <1>8, <1>1 DEF Held, Live, LiveActivation, BrokerInv, VmHeld, HomesOK
  <1>10. ASSUME NEW c \in Brokers, NEW a \in Runs, Knows(c, a)'
         PROVE  Knows(c, a) \/ (c = b /\ a = r)
    BY <1>3, <1>4, <1>2, <1>10 DEF KnownIn, Knows
  <1>11. HomesOK'
    BY <1>2, <1>9, <1>10, ReservedRows, <1>7, ConstantTypes DEF HomesOK, Written, Up, BrokerInv
  <1> QED BY <1>1, <1>7, <1>11 DEF BrokerInv

\* Taking a warm Sandbox keeps the invariant.
LEMMA CreateWarmKeeps ==
    ASSUME BrokerInv, NEW b \in Brokers, NEW r \in Runs, CreateWarm(b, r)
    PROVE  BrokerInv'
  <1> DEFINE w == WorkspaceOf[r]
             e == mem[b].warm[w]
             m == [mem[b] EXCEPT !.warm[w] = NoWarm]
             n == [m EXCEPT !.act[e.id] = Activation(r, TRUE)]
  <1>1. /\ BrokerTypes' /\ BrokerTypes /\ RowsOK /\ DownOK /\ r \in Holders /\ mem[b] \in MemoryType
        /\ w \in Workspaces
    BY CreateWarmTypes, ConstantTypes DEF BrokerInv, BrokerTypes
  <1>2. UNCHANGED <<inst, up, vm, flow, closing>> /\ up[b]
    BY DEF CreateWarm
  <1>3. e.id \in Runs
    BY <1>1, WarmIds DEF CreateWarm, WarmType
  <1>4. m \in MemoryType /\ Sub(m, mem[b])
    BY <1>1, MemoryFields, NothingTypes, SubMemory
  <1>5. FlowsFall /\ ClosingFalls /\ InstancesFall /\ Fewer(vm', None)
    BY <1>1, FewerVms, <1>2, SameFlows, SameClosing, SameInstances
  <1>6. CASE Reserve(b, e.id, r, TRUE)
    <2>1. row' = Reserved(b, e.id, r)
      BY <1>6 DEF CreateWarm
    <2>2. mem' = [mem EXCEPT ![b] = n]
      BY <1>1, <1>6 DEF CreateWarm, BrokerTypes
    <2>3. Sub(n, mem[b])
      <3>1. /\ n.warm = m.warm /\ n.susp = m.susp /\ n.open = m.open /\ n.reaping = m.reaping
            /\ \A a \in Runs : a # e.id => n.act[a] = m.act[a]
        <4> HIDE DEF m
        <4> QED BY <1>4 DEF MemoryType
      <3>2. KnownIn(mem[b], e.id)
        BY <1>1 DEF KnownIn
      <3>3. ASSUME NEW a \in Runs, KnownIn(n, a) PROVE KnownIn(mem[b], a)
        <4>1. CASE a = e.id
          BY <3>2, <4>1
        <4>2. CASE a # e.id
          <5>1. KnownIn(m, a)
            <6> HIDE DEF n, m, e
            <6> QED BY <3>1, <3>3, <4>2 DEF KnownIn
          <5> QED BY <1>4, <5>1 DEF Sub
        <4> QED BY <4>1, <4>2
      <3>4. n.open \subseteq mem[b].open /\ n.reaping \subseteq mem[b].reaping
        <4> HIDE DEF n, m
        <4> QED BY <1>4, <3>1 DEF Sub
      <3> QED BY <3>3, <3>4 DEF Sub
    <2>4. MemoryFalls
      <3> HIDE DEF n
      <3> QED BY <1>1, <1>2, <2>2, <2>3, SubStep
    <2> QED BY <1>1, <1>3, <1>5, <1>6, <2>1, <2>4, ReservedKeeps
  <1>7. CASE ~Reserve(b, e.id, r, TRUE)
    <2>1. UNCHANGED row /\ mem' = [mem EXCEPT ![b] = m]
      BY <1>1, <1>7 DEF CreateWarm, BrokerTypes
    <2>2. MemoryFalls
      <3> HIDE DEF m
      <3> QED BY <1>1, <1>2, <1>4, <2>1, SubStep
    <2>3. RowsOK' /\ RowsFall /\ EnvsFall /\ VmsFall
      BY <1>1, <1>2, <2>1, SameRows, SameVms
    <2> QED BY <1>1, <1>5, <2>2, <2>3, OrdinaryStep DEF Ordinary
  <1> QED BY <1>6, <1>7

\* A delegated child that takes its parent's Sandbox keeps the invariant.
LEMMA CreateDelegatedKeeps ==
    ASSUME BrokerInv, NEW b \in Brokers, NEW r \in Runs, CreateDelegated(b, r)
    PROVE  BrokerInv'
  <1>1. PICK a \in ActiveAt(b, WorkspaceOf[r]) :
        LET p == mem[b].act[a].run
            sealed == mem[b].act[a].handle /\ mem[b].act[a].mat
        IN  /\ up[b] /\ (sealed => Owned(b, a, p))
            /\ vm' = IF sealed THEN [vm EXCEPT ![a].state = "idle"] ELSE vm
            /\ IF Reserve(b, a, r, FALSE)
               THEN /\ row' = Reserved(b, a, r)
                    /\ mem' = [mem EXCEPT ![b].susp[WorkspaceOf[r]] =
                                              [id |-> a, run |-> p, keep |-> "suspended"],
                                          ![b].act[a] = Activation(r, mem[b].act[a].handle)]
               ELSE mem' = [mem EXCEPT ![b].act[a].mat = FALSE] /\ UNCHANGED row
            /\ UNCHANGED <<inst, up, flow, closing>>
    BY DEF CreateDelegated
  <1> DEFINE x == mem[b].act[a]
             w == WorkspaceOf[r]
             s == [id |-> a, run |-> x.run, keep |-> "suspended"]
             n == [mem[b] EXCEPT !.susp[w] = s, !.act[a] = Activation(r, x.handle)]
             y == [x EXCEPT !.mat = FALSE]
             o == [mem[b] EXCEPT !.act[a] = y]
  <1>2. /\ BrokerTypes' /\ BrokerTypes /\ RowsOK /\ DownOK /\ r \in Holders /\ mem[b] \in MemoryType
        /\ w \in Workspaces /\ a \in Runs /\ a \in Holders /\ x # NoAct
    BY CreateDelegatedTypes, ConstantTypes DEF ActiveAt, BrokerInv, BrokerTypes
  <1>3. FlowsFall /\ ClosingFalls /\ InstancesFall /\ up[b]
    BY <1>1, <1>2, SameFlows, SameClosing, SameInstances
  <1>4. Fewer(vm', None)
    BY <1>1, <1>2, FewerVms DEF Owned
  <1>5. CASE Reserve(b, a, r, FALSE)
    <2>1. row' = Reserved(b, a, r) /\ mem' = [mem EXCEPT ![b] = n]
      BY <1>1, <1>2, <1>5 DEF BrokerTypes
    <2>2. Sub(n, mem[b])
      <3>1. /\ n.warm = mem[b].warm /\ n.open = mem[b].open /\ n.reaping = mem[b].reaping
            /\ \A c \in Runs : c # a => n.act[c] = mem[b].act[c]
            /\ \A u \in Workspaces : u # w => n.susp[u] = mem[b].susp[u]
            /\ n.susp[w].id = a
        BY <1>2 DEF MemoryType
      <3>2. KnownIn(mem[b], a)
        BY <1>2 DEF KnownIn
      <3> HIDE DEF n, x, w
      <3>3. ASSUME NEW c \in Runs, KnownIn(n, c) PROVE KnownIn(mem[b], c)
        BY <3>2, <3>1, <3>3 DEF KnownIn
      <3> QED BY <3>1, <3>3 DEF Sub
    <2>3. MemoryFalls
      <3> HIDE DEF n
      <3> QED BY <1>2, <1>3, <2>1, <2>2, SubStep
    <2> QED BY <1>2, <1>3, <1>4, <1>5, <2>1, <2>3, ReservedKeeps
  <1>6. CASE ~Reserve(b, a, r, FALSE)
    <2>1. UNCHANGED row /\ mem' = [mem EXCEPT ![b] = o]
      BY <1>1, <1>2, <1>6 DEF BrokerTypes
    <2>2. Sub(o, mem[b])
      <3> HIDE DEF y
      <3> QED BY <1>2, SubMemory
    <2>3. MemoryFalls
      <3> HIDE DEF o
      <3> QED BY <1>2, <1>3, <2>1, <2>2, SubStep
    <2>4. RowsOK' /\ RowsFall /\ EnvsFall /\ VmsFall
      BY <1>2, <1>4, <2>1, SameRows, VmsStep
    <2> QED BY <1>2, <1>3, <2>3, <2>4, OrdinaryStep DEF Ordinary
  <1> QED BY <1>5, <1>6

\* The parent of a delegated Run gets the Workspace back from its own replica.
LEMMA RestoreKeeps ==
    ASSUME BrokerInv, BrokerTypes', NEW b \in Brokers, up[b], NEW w \in Workspaces,
           NEW m \in MemoryType, Sub(m, mem[b]), m.susp[w] # NoWarm,
           NEW v, NEW g, Fewer(v, g), v \in [Holders -> VmType], NEW handle, NEW ok,
           RestoreSuspended(b, w, m, v, handle, ok), FlowsFall, ClosingFalls, InstancesFall
    PROVE  BrokerInv'
  <1> DEFINE s == m.susp[w]
             idle == handle /\ v[s.id].state = "idle" /\ v[s.id].prov = b
             kept == idle /\ ok
             back == Reserve(b, s.id, s.run, FALSE)
             x == [run |-> s.run, handle |-> kept, mat |-> kept]
             n == [m EXCEPT !.susp[w] = NoWarm]
             o == [n EXCEPT !.act[s.id] = x]
  <1>1. s.id \in Runs /\ s.id \in Holders
    BY ConstantTypes DEF MemoryType, WarmType
  <1>2. n \in MemoryType /\ Sub(n, m) /\ BrokerTypes /\ RowsOK /\ vm \in [Holders -> VmType]
    BY MemoryFields, NothingTypes, SubMemory DEF BrokerInv, BrokerTypes
  <1>3. Fewer(vm', None)
    <2>1. vm' = v \/ vm' = [v EXCEPT ![s.id] = NoVm] \/ (idle /\ vm' = Rebound(v, s.id, s.run))
      BY DEF RestoreSuspended
    <2>2. \A h \in Holders : h # None
      BY ConstantTypes
    <2> HIDE DEF s
    <2>3. ASSUME NEW h \in Holders, vm'[h].state # "none", ~vm'[h].stray
          PROVE  v[h].state # "none" /\ ~v[h].stray /\ v[h].prov = vm'[h].prov
      BY <2>3, <1>1, NoneNothing, <2>1 DEF Rebound, VmType
    <2> QED BY <2>2, <2>3 DEF Fewer
  <1>4. CASE back
    <2>1. row' = Reserved(b, s.id, s.run) /\ mem' = [mem EXCEPT ![b] = o]
      BY <1>4 DEF MemoryType, RestoreSuspended
    <2>2. Sub(o, m)
      <3>1. /\ o.warm = m.warm /\ o.open = m.open /\ o.reaping = m.reaping /\ o.susp = n.susp
            /\ \A c \in Runs : c # s.id => o.act[c] = n.act[c]
        BY <1>2 DEF MemoryType
      <3>2. KnownIn(m, s.id) /\ n.warm = m.warm
        BY DEF KnownIn
      <3> HIDE DEF o, n, s
      <3>3. ASSUME NEW c \in Runs, KnownIn(o, c) PROVE KnownIn(m, c)
        BY <3>2, <3>1, <3>3, <1>2 DEF KnownIn, Sub
      <3> QED BY <3>1, <3>3 DEF Sub
    <2>3. MemoryFalls
      <3> HIDE DEF o
      <3>1. Sub(o, mem[b])
        BY <2>2, SubTransitive
      <3> QED BY <1>2, <2>1, <3>1, SubStep
    <2> HIDE DEF s
    <2> QED BY <1>1, <1>3, <1>4, <2>1, <2>3, ReservedKeeps
  <1>5. CASE ~back
    <2>1. UNCHANGED row /\ mem' = [mem EXCEPT ![b] = ReleaseAdmission(n, s.id)]
      BY <1>5 DEF RestoreSuspended
    <2>2. Sub(ReleaseAdmission(n, s.id), mem[b])
      BY <1>2, SubMemory, SubTransitive
    <2>3. MemoryFalls
      BY <1>2, <2>1, <2>2, SubStep
    <2>4. RowsOK' /\ RowsFall /\ EnvsFall /\ VmsFall
      BY <1>2, <1>3, <2>1, SameRows, VmsStep
    <2> QED BY <2>3, <2>4, OrdinaryStep DEF Ordinary
  <1> QED BY <1>4, <1>5

\* The row kept warm stays held, those beyond the limit are released.
LEMMA KeptWarmRows ==
    ASSUME BrokerInv, NEW b \in Brokers, NEW a \in Runs, NEW out, out \subseteq Runs,
           row' = [h \in Holders |-> IF h = a THEN SetState(b, h, "warm")[h]
                                     ELSE IF h \in out THEN SetState(b, h, "released")[h]
                                     ELSE row[h]]
    PROVE  /\ RowsOK' /\ RowsFall /\ EnvsFall
           /\ \A g \in Holders : g \notin out /\ Held(g) => Held(g)'
  <1>1. a \in Holders /\ BrokerTypes /\ RowsOK
    BY ConstantTypes DEF BrokerInv
  <1>2. ASSUME NEW h \in Holders, row'[h] # row[h]
        PROVE  /\ h \in Runs /\ Held(h) /\ row[h].state \notin {"none", "requested"}
               /\ row'[h].owner = row[h].owner
               /\ row'[h].state = "warm" \/ (row'[h].state = "released" /\ h \in out)
    BY <1>2, <1>1, SandboxBrokerAssumption, ConstantTypes DEF SetState, BrokerTypes, RowType,
       CanSet, RowsOK, Held, Live
  <1>3. ASSUME NEW h \in Holders
        PROVE  /\ Held(h)' => Held(h)
               /\ h \notin out /\ Held(h) => Held(h)'
    BY <1>2 DEF Held, Live, LiveActivation
  <1>4. RowsFall
    BY <1>2, <1>3 DEF RowsFall
  <1>5. RowsOK'
    BY <1>1, <1>2, SandboxBrokerAssumption DEF RowsOK, LiveActivation
  <1>6. EnvsFall
    BY <1>2, ConstantTypes, SandboxBrokerAssumption DEF EnvsFall
  <1> QED BY <1>3, <1>4, <1>5, <1>6

\* The end of a release keeps the invariant.
LEMMA FinishReleaseKeeps ==
    ASSUME BrokerInv, NEW b \in Brokers, NEW r \in Runs, FinishRelease(b, r)
    PROVE  BrokerInv'
  <1> DEFINE c == closing[r]
             w == WorkspaceOf[r]
             retained == c.how # "destroy" /\ c.handle /\ Owned(b, c.id, r) /\ vm[c.id].state = "idle"
             dropped == c.how # "destroy" /\ c.handle /\ ~retained
             freed == IF dropped THEN ReleaseAdmission(mem[b], c.id) ELSE mem[b]
             gone(ok) == IF retained \/ ~c.handle THEN vm ELSE Discarded(vm, c.id, ok)
             kept == [id |-> c.id, run |-> r, keep |-> c.how]
  <1>1. BrokerTypes' /\ BrokerTypes /\ RowsOK /\ DownOK
    BY FinishReleaseTypes DEF BrokerInv
  <1>2. /\ c.by = b /\ c # NoClose /\ c.id \in Runs /\ c.id \in Holders /\ c.handle \in BOOLEAN
        /\ c.how \in {"ephemeral", "persistent", "destroy"} /\ w \in Workspaces
    BY <1>1, ClosingAt, ConstantTypes DEF FinishRelease
  <1>3. Knows(b, c.id) /\ up[b]
    BY <1>2 DEF Knows, BrokerInv, HomesOK
  <1>4. mem[b] \in MemoryType /\ freed \in MemoryType /\ Sub(freed, mem[b])
    BY <1>1, ReleaseAdmissionType, SubMemory DEF BrokerTypes
  <1>5. /\ FlowsFall /\ InstancesFall /\ ClosingFalls
    BY <1>1, SameFlows, SameInstances DEF FinishRelease, ClosingFalls, BrokerTypes
  <1>6. PICK ok \in BOOLEAN :
              \/ /\ freed.susp[w] # NoWarm
                 /\ RestoreSuspended(b, w, freed, gone(ok), c.handle, ok)
              \/ /\ freed.susp[w] = NoWarm /\ retained /\ ok
                 /\ \E e \in EnforceWarmLimit(b, [freed EXCEPT !.warm[w] = kept], vm, w) :
                       /\ mem' = [mem EXCEPT ![b] = e.m]
                       /\ vm' = e.v
                       /\ row' = [h \in Holders |->
                                     IF h = c.id THEN SetState(b, h, "warm")[h]
                                     ELSE IF h \in e.out THEN SetState(b, h, "released")[h]
                                     ELSE row[h]]
              \/ /\ freed.susp[w] = NoWarm /\ ~retained
                 /\ IF c.how = "destroy" /\ c.handle /\ ~ok
                    THEN UNCHANGED <<mem, row, vm>>
                    ELSE /\ mem' = [mem EXCEPT ![b] = ReleaseAdmission(freed, c.id)]
                         /\ row' = SetState(b, c.id, "released")
                         /\ vm' = IF ~c.handle /\ CanSet(b, c.id) THEN Discarded(vm, c.id, FALSE)
                                  ELSE gone(ok)
    BY DEF FinishRelease
  <1>7. /\ Fewer(vm, None) /\ vm \in [Holders -> VmType]
        /\ \A k \in BOOLEAN : Fewer(Discarded(vm, c.id, k), c.id)
        /\ \A k \in BOOLEAN : Discarded(vm, c.id, k) \in [Holders -> VmType]
    <2>1. vm \in [Holders -> VmType]
      BY <1>1 DEF BrokerTypes
    <2> HIDE DEF c
    <2> QED BY <1>1, <1>2, <2>1, FewerVms, VmTypes
  <1>8. CASE freed.susp[w] # NoWarm /\ RestoreSuspended(b, w, freed, gone(ok), c.handle, ok)
    <2>1. \E g : Fewer(gone(ok), g)
      BY <1>7
    <2>2. PICK g : Fewer(gone(ok), g)
      BY <2>1
    <2>3. gone(ok) \in [Holders -> VmType]
      BY <1>7
    <2> HIDE DEF c, w, freed, gone
    <2> QED BY <1>1, <1>2, <1>3, <1>4, <1>5, <1>8, <2>2, <2>3, RestoreKeeps
  <1>9. CASE /\ retained
             /\ \E e \in EnforceWarmLimit(b, [freed EXCEPT !.warm[w] = kept], vm, w) :
                       /\ mem' = [mem EXCEPT ![b] = e.m]
                       /\ vm' = e.v
                       /\ row' = [h \in Holders |->
                                     IF h = c.id THEN SetState(b, h, "warm")[h]
                                     ELSE IF h \in e.out THEN SetState(b, h, "released")[h]
                                     ELSE row[h]]
    <2> DEFINE m == [freed EXCEPT !.warm[w] = kept]
    <2>1. PICK e \in EnforceWarmLimit(b, m, vm, w) :
                       /\ mem' = [mem EXCEPT ![b] = e.m]
                       /\ vm' = e.v
                       /\ row' = [h \in Holders |->
                                     IF h = c.id THEN SetState(b, h, "warm")[h]
                                     ELSE IF h \in e.out THEN SetState(b, h, "released")[h]
                                     ELSE row[h]]
      BY <1>9
    <2>2. kept \in WarmType
      BY <1>2 DEF WarmType
    <2> HIDE DEF c, w, freed, retained, dropped
    <2>3. /\ m \in MemoryType /\ m.act = freed.act /\ m.susp = freed.susp /\ m.open = freed.open
          /\ m.reaping = freed.reaping
          /\ m.warm[w].id = c.id /\ \A u \in Workspaces : u # w => m.warm[u] = freed.warm[u]
      <3>1. m \in MemoryType
        BY <1>2, <1>4, <2>2, MemoryFields
      <3>2. /\ m.act = freed.act /\ m.susp = freed.susp /\ m.open = freed.open
            /\ m.reaping = freed.reaping /\ m.warm = [freed.warm EXCEPT ![w] = kept]
            /\ freed.warm \in [Workspaces -> WarmType]
        <4> HIDE DEF kept
        <4> QED BY <1>4 DEF MemoryType
      <3> QED BY <1>2, <3>1, <3>2
    <2> HIDE DEF m, kept
    <2>4. \A a \in Runs : KnownIn(m, a) => Knows(b, a)
      BY <2>3, <1>4, <1>3 DEF KnownIn, Sub, Knows
    <2>5. \/ e = Untouched(m, vm)
          \/ \E u \in Workspaces : m.warm[u].id \in Runs /\ e = Evicted(m, vm, u)
      BY <2>1, <2>3, EnforceCases
    <2>6. /\ Sub(e.m, m) /\ e.out \subseteq Runs
          /\ \A g \in Holders : /\ e.v[g].state # "none" /\ ~e.v[g].stray =>
                                      Written(g) /\ e.v[g].prov = vm[g].prov /\ g \notin e.out
      <3>1. CASE e = Untouched(m, vm)
        BY <2>3, SubMemory, <3>1 DEF Written, Up, Untouched
      <3>2. CASE \E u \in Workspaces : m.warm[u].id \in Runs /\ e = Evicted(m, vm, u)
        <4>1. PICK u \in Workspaces : m.warm[u].id \in Runs /\ e = Evicted(m, vm, u)
          BY <3>2
        <4> DEFINE k == [m EXCEPT !.warm[u] = NoWarm]
        <4>2. k \in MemoryType /\ Sub(k, m)
          BY <2>3, MemoryFields, NothingTypes, SubMemory
        <4>3. Sub(ReleaseAdmission(k, m.warm[u].id), m)
          <5> HIDE DEF k
          <5>1. Sub(ReleaseAdmission(k, m.warm[u].id), k)
            BY <4>2, SubMemory
          <5> QED BY <4>2, <5>1, SubTransitive
        <4>4. m.warm[u].id \in Holders
          BY <4>1, ConstantTypes
        <4>5. Fewer([vm EXCEPT ![m.warm[u].id] = NoVm], m.warm[u].id)
          BY <1>1, <4>4, FewerVms
        <4>6. /\ e.m = ReleaseAdmission(k, m.warm[u].id) /\ e.out = {m.warm[u].id}
              /\ e.v = [vm EXCEPT ![m.warm[u].id] = NoVm]
          BY <4>1 DEF Evicted
        <4> HIDE DEF k
        <4> QED BY <4>1, <4>3, <4>5, <4>6 DEF Fewer
      <3> QED BY <2>5, <3>1, <3>2
    <2>7. MemoryFalls
      BY <1>1, <2>1, <2>4, <2>6, <1>4, <2>3, <1>3 DEF BrokerTypes, Sub, Knows, MemoryFalls
    <2>8. /\ RowsOK' /\ RowsFall /\ EnvsFall
          /\ \A g \in Holders : g \notin e.out /\ Held(g) => Held(g)'
      BY <1>2, <2>1, <2>6, KeptWarmRows
    <2>9. VmsFall
      BY <2>1, <2>6, <2>8 DEF VmsFall, Written, Up
    <2> QED BY <1>1, <1>5, <2>7, <2>8, <2>9, OrdinaryStep DEF Ordinary
  <1>10. CASE UNCHANGED <<mem, row, vm>>
    BY <1>1, <1>10, SameRows, SameVms, SameMemory, <1>5, OrdinaryStep DEF Ordinary
  <1>11. CASE /\ ~retained
              /\ mem' = [mem EXCEPT ![b] = ReleaseAdmission(freed, c.id)]
              /\ row' = SetState(b, c.id, "released")
              /\ vm' = IF ~c.handle /\ CanSet(b, c.id) THEN Discarded(vm, c.id, FALSE) ELSE gone(ok)
    <2>1. Fewer(vm', c.id) \/ (Fewer(vm', None) /\ ~CanSet(b, c.id))
      BY <1>7, <1>11
    <2> HIDE DEF c, w, freed, gone, retained
    <2>2. Sub(ReleaseAdmission(freed, c.id), mem[b])
      BY <1>4, SubMemory, SubTransitive
    <2>3. MemoryFalls
      BY <1>1, <1>3, <1>11, <2>2, SubStep
    <2>4. Legal(c.id, "released")
      BY DEF Legal
    <2>5. /\ RowsOK' /\ RowsFall /\ EnvsFall
          /\ \A g \in Holders : Held(g) => Held(g)' \/ (g = c.id /\ CanSet(b, c.id))
      BY <1>2, <1>11, <2>4, SetKept
    <2>6. VmsFall
      BY <2>1, <2>5, VmsStep
    <2> QED BY <1>1, <1>5, <2>3, <2>5, <2>6, OrdinaryStep DEF Ordinary
  <1> QED BY <1>6, <1>8, <1>9, <1>10, <1>11

\* Opening a terminal over a warm activation keeps the invariant.
LEMMA OpenTerminalKeeps ==
    ASSUME BrokerInv, NEW b \in Brokers, NEW t \in Terminals, OpenTerminal(b, t)
    PROVE  BrokerInv'
  <1> DEFINE w == WorkspaceOf[t]
             acts == LiveOf(Runs, w)
  <1>1. /\ BrokerTypes' /\ BrokerTypes /\ RowsOK /\ DownOK
        /\ t \in Holders /\ t \notin Runs /\ t \notin Envs
    BY OpenTerminalTypes, ConstantTypes, SandboxBrokerAssumption DEF BrokerInv
  <1>2. /\ UNCHANGED <<inst, up, vm, mem, closing>> /\ Current(b) /\ row[t].state = "none"
        /\ LiveOf(Envs, w) = {} /\ LiveOf(Terminals, w) = {}
        /\ \A a \in acts : row[a].state = "warm" /\ row[a].owner = b
        /\ row' = [h \in Holders |->
                      IF h = t THEN [state |-> "reserved", owner |-> b, run |-> None]
                      ELSE IF h \in acts THEN [row[h] EXCEPT !.state = "cleaning"] ELSE row[h]]
        /\ flow' = IF acts = {} THEN Starting(b, t, "admit", "terminal", t)
                   ELSE Starting(b, t, "retire", "terminal", CHOOSE a \in acts : TRUE)
    BY DEF OpenTerminal
  <1>3. ASSUME NEW h \in Holders
        PROVE  /\ h = t => row'[h].state = "reserved" /\ row'[h].owner = b
               /\ h \in acts => /\ h \in Runs /\ h # t /\ row[h].state = "warm"
                                /\ row'[h].state = "cleaning"
               /\ h # t /\ h \notin acts => row'[h] = row[h]
    BY <1>1, <1>2 DEF LiveOf, BrokerTypes, RowType
  <1>4. /\ flow'[t].by = b /\ flow'[t].phase \in {"admit", "retire"}
        /\ flow'[t].phase = "admit" => flow'[t].id = t
        /\ flow'[t].phase = "retire" => flow'[t].id \in acts
        /\ acts # {} => flow'[t].phase = "retire"
        /\ \A x \in Holders : x # t => flow'[x] = flow[x]
    <2>1. acts # {} => (CHOOSE a \in acts : TRUE) \in acts
      OBVIOUS
    <2> HIDE DEF acts
    <2> QED BY <1>1, <1>2, <2>1 DEF Starting, BrokerTypes
  <1>5. ~Held(t) /\ ~Written(t)
    BY <1>1, <1>2 DEF Held, Live, LiveTerminal, BrokerInv, VmHeld
  <1>6. ASSUME NEW h \in Holders, h # t PROVE Held(h) <=> Held(h)'
    BY <1>3, <1>6 DEF Held, Live, LiveActivation
  <1>7. RowsOK'
    <2> SUFFICES ASSUME NEW h \in Holders
                 PROVE
        /\ h \in Runs => row'[h].state \in LiveActivation \cup {"none", "released"}
        /\ h \in Terminals => row'[h].state \in LiveTerminal \cup {"none", "released"}
        /\ h \in Envs => row'[h].state \in LiveEnvironment \cup {"none", "failed", "released"}
        /\ row'[h].state \in {"none", "requested"} => row'[h].owner = None
      BY DEF RowsOK
    <2> HIDE DEF acts
    <2>1. CASE h = t
      BY <1>1, <1>3, <2>1 DEF LiveTerminal
    <2>2. CASE h \in acts
      BY <1>1, <1>3, <2>2, SandboxBrokerAssumption DEF LiveActivation
    <2>3. CASE h # t /\ h \notin acts
      BY <1>1, <1>3, <2>3 DEF RowsOK
    <2> QED BY <2>1, <2>2, <2>3
  <1>8. VmHeld'
    BY <1>2, <1>5, <1>6 DEF Written, Up, BrokerInv, VmHeld
  <1>9. HeldAlone'
    <2>1. ASSUME NEW g \in Holders, NEW h \in Holders, g # t, Retiring(g, h)
          PROVE  Retiring(g, h)'
      BY <1>2, <1>4, <2>1 DEF Retiring, Written, Up
    <2>2. ASSUME NEW h \in Holders, h # t, Held(h)', WorkspaceOf[h] = w
          PROVE  Retiring(t, h)'
      BY <1>6, <2>2, <1>2, <1>4, <1>5 DEF At, Held, LiveOf, Holders, Retiring, Written, Up
    <2> SUFFICES ASSUME NEW g \in Holders, NEW h \in Holders, Held(g)', Held(h)',
                        WorkspaceOf[g] = WorkspaceOf[h], g # h
                 PROVE  Retiring(g, h)' \/ Retiring(h, g)'
      BY DEF HeldAlone
    <2>3. CASE g = t
      BY <2>2, <2>3
    <2>4. CASE h = t
      BY <2>2, <2>4
    <2>5. CASE g # t /\ h # t
      BY <1>6, <2>5, <2>1 DEF BrokerInv, HeldAlone
    <2> QED BY <2>3, <2>4, <2>5
  <1>10. FlowsOK'
    <2> SUFFICES ASSUME NEW x \in Holders PROVE FlowOK(x)'
      BY DEF FlowsOK
    <2>1. CASE x = t
      <3>1. \A a \in acts : a \in Runs /\ WorkspaceOf[a] = w
        BY DEF LiveOf, At
      <3>2. up[b] /\ inst[b] = "ready"
        BY <1>2 DEF Current
      <3> HIDE DEF acts
      <3> QED BY <1>2, <1>4, <2>1, <3>1, <3>2, <1>1 DEF FlowOK
    <2>2. CASE x # t
      BY <1>2, <1>4, <2>2 DEF BrokerInv, FlowsOK, FlowOK
    <2> QED BY <2>1, <2>2
  <1>11. FlowsFallOn(Runs) /\ FlowsFallOn(Envs)
    BY <1>1, <1>4, ConstantTypes DEF FlowsFallOn
  <1>12. MemoryFalls /\ ClosingFalls /\ InstancesFall /\ MemoryKept
    BY <1>1, <1>2, SameMemory, SameClosing, SameInstances, MemoryFallsKept
  <1>13. EnvsFall
    BY <1>1, ConstantTypes, SandboxBrokerAssumption, <1>3 DEF LiveOf, EnvsFall
  <1>14. \A h \in Holders : row[h].state # "none" => row'[h].state # "none"
    BY <1>3
  <1>15. VmsFall
    BY <1>5, <1>6, <1>2, SameVms
  <1>16. EnvFlows' /\ ReapOK' /\ DownOK' /\ HomesOK'
    BY <1>2, <1>11, <1>12, <1>13, EnvFrame, DownFrame, <1>14, <1>15, HomesFrame DEF Written, Up
  <1> QED BY <1>1, <1>7, <1>8, <1>9, <1>10, <1>16 DEF BrokerInv

\* Retiring the warm activation of a terminal keeps the invariant.
LEMMA RetireWarmKeeps ==
    ASSUME BrokerInv, NEW b \in Brokers, NEW t \in Terminals, RetireWarm(b, t)
    PROVE  BrokerInv'
  <1>0. PICK a : a = flow[t].id
    OBVIOUS
  <1> DEFINE w == WorkspaceOf[t]
             kept == mem[b].warm[w].id = a
             m == IF kept THEN [mem[b] EXCEPT !.warm[w] = NoWarm] ELSE mem[b]
  <1>1. /\ BrokerTypes' /\ BrokerTypes /\ RowsOK /\ DownOK /\ mem[b] \in MemoryType
        /\ t \in Holders /\ t \notin Runs /\ t \notin Envs /\ w \in Workspaces
    BY RetireWarmTypes, ConstantTypes, SandboxBrokerAssumption DEF BrokerInv, BrokerTypes
  <1>2. /\ UNCHANGED <<inst, up, closing>> /\ flow[t].phase = "retire" /\ flow[t].by = b
    BY DEF RetireWarm
  <1>3. flow[t] # NoFlow /\ up[b] /\ a \in Runs /\ a \in Holders /\ WorkspaceOf[a] = w
        /\ inst[b] # "absent"
    BY <1>1, <1>2, FlowBy, <1>0, ConstantTypes DEF BrokerInv, FlowsOK, FlowOK
  <1>4. m \in MemoryType /\ Sub(m, mem[b])
    BY <1>1, MemoryFields, NothingTypes, SubMemory
  <1>5. PICK ok \in BOOLEAN :
              LET stopped == ok /\ (kept \/ Destroyable(b, a))
                  retired == stopped /\ CanSet(b, a)
              IN  /\ vm' = Destroyed(vm, a, stopped)
                  /\ mem' = [mem EXCEPT ![b] = IF stopped /\ kept THEN ReleaseAdmission(m, a) ELSE m]
                  /\ row' = IF retired THEN SetState(b, a, "released") ELSE SetState(b, t, "unknown")
                  /\ flow' = IF retired THEN Starting(b, t, "admit", "terminal", t)
                             ELSE [flow EXCEPT ![t] = NoFlow]
    BY <1>0 DEF RetireWarm
  <1> DEFINE stopped == ok /\ (kept \/ Destroyable(b, a))
             retired == stopped /\ CanSet(b, a)
             n == IF stopped /\ kept THEN ReleaseAdmission(m, a) ELSE m
  <1>6. Sub(n, mem[b])
    <2>1. Sub(ReleaseAdmission(m, a), mem[b])
      <3> HIDE DEF m
      <3> QED BY <1>4, SubMemory, SubTransitive
    <2> QED BY <1>4, <2>1
  <1>7. MemoryFalls
    <2> HIDE DEF n
    <2>1. mem' = [mem EXCEPT ![b] = n]
      BY <1>5 DEF n
    <2> QED BY <1>1, <1>3, <1>6, <2>1, SubStep
  <1>8. ClosingFalls /\ InstancesFall
    BY <1>1, <1>2, SameClosing, SameInstances
  <1>9. (stopped => Fewer(vm', a)) /\ Fewer(vm', None)
    <2>1. CASE stopped
      <3>1. vm' = Destroyed(vm, a, TRUE)
        BY <1>5, <2>1
      <3>2. Fewer(vm', a)
        BY <1>1, <1>3, <3>1, FewerVms
      <3> QED BY <3>2, ConstantTypes DEF Fewer
    <2>2. CASE ~stopped
      BY <1>5, <2>2, <1>1, <1>3, FewerVms
    <2> QED BY <2>1, <2>2
  <1>10. CASE ~retired
    <2>1. row' = SetState(b, t, "unknown") /\ flow' = [flow EXCEPT ![t] = NoFlow]
      BY <1>5, <1>10
    <2>2. Legal(t, "unknown")
      BY SandboxBrokerAssumption DEF Legal, LiveTerminal
    <2>3. RowsOK' /\ RowsFall /\ EnvsFall /\ \A g \in Holders : Held(g) => Held(g)'
      BY <2>1, <2>2, SetKept
    <2>4. FlowsFall
      BY <1>1, <2>1, FlowEnds
    <2>5. VmsFall
      BY <1>9, <2>3, VmsStep
    <2> QED BY <1>1, <1>7, <1>8, <2>3, <2>4, <2>5, OrdinaryStep DEF Ordinary
  <1>11. CASE retired
    <2>1. row' = SetState(b, a, "released") /\ flow' = Starting(b, t, "admit", "terminal", t)
          /\ CanSet(b, a) /\ stopped
      BY <1>5, <1>11
    <2> HIDE DEF m, n, kept, stopped, retired
    <2>2. RowsOK' /\ RowsFall /\ EnvsFall
          /\ \A g \in Holders : Held(g) => Held(g)' \/ g = a
      BY <1>3, <2>1, SetKept DEF Legal
    <2>3. VmsFall
      BY <1>9, <2>1, <2>2, VmsStep
    <2>4. /\ flow'[t] = [phase |-> "admit", by |-> b, kind |-> "terminal", id |-> t]
          /\ \A x \in Holders : x # t => flow'[x] = flow[x]
      BY <1>1, <2>1 DEF Starting, BrokerTypes
    <2>5. Held(a) /\ ~Held(a)'
      BY <1>1, <1>3, <2>1, ConstantTypes DEF CanSet, SetState, BrokerTypes, RowType, RowsOK, Held,
         Live, LiveActivation
    <2>6. VmHeld'
      BY <2>3 DEF BrokerInv, VmHeld, VmsFall
    <2>7. HeldAlone'
      BY <2>2, <2>5, <1>3, SandboxBrokerAssumption, <1>1, <2>3, <2>4 DEF HeldAlone, RowsFall,
         BrokerInv, Retiring, VmsFall
    <2>8. FlowsOK'
      BY <1>1, <1>2, <1>3, <2>4 DEF FlowsOK, FlowOK, BrokerInv
    <2>9. FlowsFallOn(Runs) /\ FlowsFallOn(Envs)
      BY <1>1, <2>4, ConstantTypes DEF FlowsFallOn
    <2>10. EnvFlows' /\ ReapOK' /\ DownOK' /\ HomesOK'
      BY <2>3, ConstantTypes, <1>7, <1>8, <2>2, <2>9, EnvFrame, DownFrame, MemoryFallsKept,
         HomesFrame DEF VmsFall, RowsFall
    <2> QED BY <1>1, <2>2, <2>6, <2>7, <2>8, <2>10 DEF BrokerInv
  <1> QED BY <1>10, <1>11

\* Provisioning an environment keeps the invariant.
LEMMA ProvisionKeeps ==
    ASSUME BrokerInv, NEW b \in Brokers, NEW e \in Envs, ProvisionEnvironment(b, e)
    PROVE  BrokerInv'
  <1> DEFINE w == WorkspaceOf[e]
  <1>1. /\ BrokerTypes' /\ BrokerTypes /\ RowsOK /\ DownOK
        /\ e \in Holders /\ e \notin Runs /\ e \notin Terminals
    BY OwnedEnvironmentTypes, ConstantTypes, SandboxBrokerAssumption DEF BrokerInv
  <1>2. /\ UNCHANGED <<inst, up, vm, mem, closing>> /\ up[b] /\ inst[b] = "ready"
        /\ e \notin mem[b].open /\ flow[e] = NoFlow /\ row[e].state \in {"requested", "failed"}
        /\ LiveOf(Runs, w) = {} /\ LiveOf(Terminals, w) = {} /\ LiveOf(Envs, w) \subseteq {e}
        /\ row' = [row EXCEPT ![e].state = "provisioning", ![e].owner = b]
        /\ flow' = Starting(b, e, "admit", "environment", e)
    BY DEF ProvisionEnvironment, Current
  <1>3. /\ row'[e].state = "provisioning" /\ row'[e].owner = b
        /\ \A h \in Holders : h # e => row'[h] = row[h]
    BY <1>1, <1>2 DEF BrokerTypes, RowType
  <1>4. /\ flow'[e] = [phase |-> "admit", by |-> b, kind |-> "environment", id |-> e]
        /\ \A x \in Holders : x # e => flow'[x] = flow[x]
    BY <1>1, <1>2 DEF Starting, BrokerTypes
  <1>5. ~Held(e) /\ ~Written(e) /\ \A h \in Holders : Written(h)' <=> Written(h)
    BY <1>1, <1>2 DEF Held, Live, LiveEnvironment, BrokerInv, VmHeld, Written, Up
  <1>6. \A h \in Holders : h # e => (Held(h) <=> Held(h)')
    BY <1>3 DEF Held, Live
  <1>7. RowsOK'
    BY <1>1, <1>3, ConstantTypes DEF RowsOK, LiveEnvironment
  <1>8. VmHeld'
    BY <1>5, <1>6 DEF BrokerInv, VmHeld
  <1>9. HeldAlone'
    BY <1>2, <1>6, <1>4, <1>5 DEF At, Held, LiveOf, Holders, HeldAlone, BrokerInv, Retiring
  <1>10. FlowsOK'
    BY <1>1, <1>2, <1>4 DEF FlowsOK, FlowOK, BrokerInv
  <1>11. EnvFlows'
    <2> SUFFICES ASSUME NEW f \in Envs, flow'[f] # NoFlow
                 PROVE  /\ \A c \in Brokers : flow'[f].by = c => f \notin mem'[c].open
                        /\ Current(flow[f].by)' =>
                              \/ row'[f].state = "released"
                              \/ /\ row'[f].state = "provisioning" /\ row'[f].owner = flow'[f].by
                                 /\ flow'[f].phase # "created" => ~Written(f)'
      BY DEF EnvFlows
    <2>1. CASE f = e
      BY <1>1, <1>2, <1>3, <1>4, <1>5, <2>1
    <2>2. CASE f # e
      <3>1. f \in Holders /\ flow'[f] = flow[f] /\ row'[f] = row[f] /\ (Written(f)' <=> Written(f))
        BY <1>3, <1>4, <1>5, <2>2, ConstantTypes
      <3>2. Current(flow[f].by)' => Current(flow[f].by)
        BY <1>2, <3>1 DEF Current
      <3> QED BY <1>2, <3>1, <3>2 DEF BrokerInv, EnvFlows
    <2> QED BY <2>1, <2>2
  <1>12. ReapOK'
    <2> SUFFICES ASSUME NEW f \in Envs, NEW c \in Brokers, f \in mem'[c].reaping
                 PROVE  /\ f \notin mem'[c].open
                        /\ Current(c)' => \/ row'[f].state = "released"
                                          \/ row'[f].state = "releasing" /\ row'[f].owner = c
      BY DEF ReapOK
    <2>1. Current(c)' => Current(c)
      BY <1>2 DEF Current
    <2>2. f # e => row'[f] = row[f]
      BY <1>3, ConstantTypes
    <2> QED BY <1>2, <2>1, <2>2 DEF BrokerInv, ReapOK
  <1>13. HomesOK'
    <2>1. \A a \in Runs : a \in Holders /\ a # e
      BY <1>1, ConstantTypes
    <2>2. \A a \in Runs, c \in Brokers : Knows(c, a)' <=> Knows(c, a)
      BY <1>2, <1>4, <2>1 DEF Knows, KnownIn
    <2> QED BY <1>2, <1>3, <1>5, <2>1, <2>2 DEF BrokerInv, HomesOK
  <1>14. DownOK'
    BY <1>1, <1>2 DEF DownOK
  <1> QED BY <1>1, <1>7, <1>8, <1>9, <1>10, <1>11, <1>12, <1>13, <1>14 DEF BrokerInv

\* A create that returns keeps the invariant.
LEMMA CreateReturnsKeeps ==
    ASSUME BrokerInv, NEW b \in Brokers, NEW x \in Holders, CreateReturns(b, x)
    PROVE  BrokerInv'
  <1>0. PICK h : h = flow[x].id
    OBVIOUS
  <1>1. BrokerTypes' /\ BrokerTypes /\ RowsOK /\ DownOK
    BY CreateReturnsTypes DEF BrokerInv
  <1>2. /\ UNCHANGED <<inst, up, row, mem, closing>>
        /\ flow[x].phase = "creating" /\ flow[x].by = b
        /\ vm' = [vm EXCEPT ![h] = NewVm(b, h, IF x \in Runs THEN x ELSE None)]
        /\ flow' = [flow EXCEPT ![x].phase = "created"]
    BY <1>0 DEF CreateReturns
  <1>3. /\ flow[x] # NoFlow /\ h \in Holders /\ up[b]
        /\ IF x \in Runs THEN h \in Runs /\ Knows(b, h) ELSE h = x
    BY <1>0, <1>1, <1>2, FlowBy
  <1>4. /\ flow'[x].phase = "created" /\ flow'[x].by = b /\ flow'[x].id = h
        /\ \A y \in Holders : y # x => flow'[y] = flow[y]
    BY <1>1, <1>0, <1>2, <1>3 DEF BrokerTypes, FlowType
  <1>5. \A g \in Holders : g # h => vm'[g] = vm[g] /\ (Written(g)' <=> Written(g))
    BY <1>1, <1>2 DEF BrokerTypes, Written, Up
  <1>6. vm'[h].prov = b /\ (Written(h)' => row[h].owner = b /\ Live(h))
    BY <1>1, <1>2, <1>3 DEF BrokerTypes, NewVm, Written, Up
  <1>7. RowsOK' /\ EnvsFall /\ \A g \in Holders : Held(g) <=> Held(g)'
    BY <1>1, <1>2, SameRows
  <1>8. VmHeld'
    BY <1>1, <1>3, <1>6, ConstantTypes, <1>5, <1>7 DEF Held, RowsOK, BrokerInv, VmHeld
  <1>9. HeldAlone'
    BY <1>2, <1>3, SandboxBrokerAssumption, <1>4, <1>5, <1>7 DEF Retiring, BrokerInv, HeldAlone
  <1>10. FlowsOK'
    BY <1>0, <1>2, <1>3, <1>4 DEF FlowsOK, BrokerInv, FlowOK
  <1>11. EnvFlows'
    BY ConstantTypes, SandboxBrokerAssumption, <1>2, <1>3, <1>4, <1>5 DEF EnvFlows, Current,
       BrokerInv
  <1>12. ReapOK' /\ DownOK'
    BY <1>2 DEF BrokerInv, ReapOK, DownOK, Current
  <1>13. HomesOK'
    <2>1. ASSUME NEW a \in Runs, NEW c \in Brokers, Knows(c, a)' PROVE Knows(c, a)
      BY <1>0, <1>2, <1>4, ConstantTypes, <2>1 DEF Knows, KnownIn
    <2>2. ASSUME NEW a \in Runs, NEW c \in Brokers, Knows(c, a)
          PROVE  Written(a)' => vm'[a].prov = c
      BY <1>3, SandboxBrokerAssumption, <2>2, <1>6, <1>5, ConstantTypes DEF Holders, BrokerInv,
         HomesOK
    <2> QED BY <1>2, <2>1, <2>2 DEF BrokerInv, HomesOK
  <1> QED BY <1>1, <1>7, <1>8, <1>9, <1>10, <1>11, <1>12, <1>13 DEF BrokerInv
-----------------------------------------------------------------------------
(* The end of a replica *)

\* A VM that comes up after its replica stopped belongs to a call of that replica.
LEMMA LateVms ==
    ASSUME BrokerInv, NEW b \in Brokers, NEW late \in SUBSET InFlight(b),
           NEW v \in [Holders -> VmType], NEW stray \in BOOLEAN, vm' = Vanish(b, late, v, stray),
           NEW g \in Holders
    PROVE  \/ /\ IF g \in Runs THEN Knows(b, g) ELSE flow[g].by = b /\ flow[g].phase = "creating"
              /\ Written(g)' => ~stray /\ row[g].owner = b /\ Live(g)
           \/ /\ Written(g)' => v[g].state # "none" /\ ~v[g].stray
              /\ v[g].prov # b => vm'[g].prov = v[g].prov
  <1>1. CASE \E x \in late : flow[x].id = g
    <2>1. PICK x \in late : flow[x].id = g
      BY <1>1
    <2>2. x \in Holders /\ flow[x].by = b /\ flow[x].phase = "creating"
      BY DEF InFlight
    <2>3. IF g \in Runs THEN Knows(b, g) ELSE flow[g].by = b /\ flow[g].phase = "creating"
      BY <2>1, <2>2, FlowBy
    <2>4. vm'[g] = [NewVm(b, g, None) EXCEPT !.prov = None, !.stray = @ \/ stray]
      BY <1>1 DEF Vanish
    <2>5. vm'[g].stray = (~(row[g].owner = b /\ Live(g)) \/ stray)
      BY <2>4 DEF NewVm
    <2> QED BY <2>3, <2>5 DEF Written, Up
  <1>2. CASE ~\E x \in late : flow[x].id = g
    BY <1>2 DEF Vanish, Written, Up, VmType
  <1> QED BY <1>1, <1>2

\* A replica that stops forgets all; what it held is left to its rows.
LEMMA StoppedKeeps ==
    ASSUME BrokerInv, BrokerTypes', NEW b \in Brokers, Stopped(b), RowsOK', VmHeld',
           \A h \in Holders : Held(h)' => Held(h),
           \A h \in Holders : \/ row'[h] = row[h]
                              \/ /\ row[h].owner = b /\ row[h].state # "released"
                                 /\ row'[h].state # "none",
           \A t \in Terminals : Written(t)' => Written(t) \/ flow[t].phase = "creating",
           \A e \in Envs : Written(e)' => Written(e) \/ flow[e].by = b,
           \A a \in Runs : Written(a)' =>
                \/ Knows(b, a)
                \/ Written(a) /\ (vm[a].prov # b => vm'[a].prov = vm[a].prov),
           \A c \in Brokers : c # b => inst'[c] = inst[c],
           inst'[b] = "absent" => inst[b] = "absent"
    PROVE  BrokerInv'
  <1>1. /\ up' = [up EXCEPT ![b] = FALSE]
        /\ mem' = [mem EXCEPT ![b] = EmptyMemory]
        /\ flow' = [x \in Holders |-> IF flow[x].by = b THEN NoFlow ELSE flow[x]]
        /\ closing' = [r \in Runs |-> IF closing[r].by = b THEN NoClose ELSE closing[r]]
        /\ BrokerTypes
    BY DEF Stopped, BrokerInv
  <1>2. /\ ~up'[b] /\ mem'[b] = EmptyMemory
        /\ \A c \in Brokers : c # b => up'[c] = up[c] /\ mem'[c] = mem[c]
    BY <1>1 DEF BrokerTypes
  <1>3. \A x \in Holders : flow'[x] = NoFlow \/ (flow'[x] = flow[x] /\ flow[x].by # b)
    BY <1>1
  <1>4. HeldAlone'
    BY <1>3, NoneNothing DEF Retiring, BrokerInv, HeldAlone
  <1>5. FlowsOK'
    BY <1>1, <1>3, FlowStep, <1>2 DEF FlowsOK, FlowOK, BrokerInv
  <1>6. EnvFlows'
    BY <1>3, ConstantTypes, <1>1, FlowStep, <1>2 DEF EnvFlows, Current, BrokerInv
  <1>7. ReapOK'
    BY <1>2, ConstantTypes DEF ReapOK, EmptyMemory, Current, BrokerInv
  <1>8. DownOK'
    BY <1>2 DEF BrokerInv, DownOK
  <1>9. HomesOK'
    <2>1. ASSUME NEW c \in Brokers, NEW a \in Runs, Knows(c, a)'
          PROVE  c # b /\ Knows(c, a)
      BY NoneNothing, ConstantTypes, <1>3, <1>1, <1>2, <2>1 DEF KnownIn, EmptyMemory, Knows
    <2> SUFFICES ASSUME NEW a \in Runs, NEW c \in Brokers, Knows(c, a)'
                 PROVE  /\ up'[c] /\ row'[a].state # "none"
                        /\ \A d \in Brokers : Knows(d, a)' => d = c
                        /\ Written(a)' => vm'[a].prov = c
      BY DEF HomesOK
    <2>2. c # b /\ Knows(c, a) /\ a \in Holders
      BY <2>1, ConstantTypes
    <2>3. /\ up[c] /\ row[a].state # "none" /\ \A d \in Brokers : Knows(d, a) => d = c
          /\ Written(a) => vm[a].prov = c
      BY <2>2 DEF BrokerInv, HomesOK
    <2>4. ~Knows(b, a)
      BY <2>2, <2>3
    <2> QED BY <1>2, <2>1, <2>2, <2>3, <2>4
  <1> QED BY <1>4, <1>5, <1>6, <1>7, <1>8, <1>9 DEF BrokerInv

\* The crash of a replica keeps the invariant.
LEMMA CrashKeeps ==
    ASSUME BrokerInv, NEW b \in Brokers, Crash(b)
    PROVE  BrokerInv'
  <1>1. BrokerTypes' /\ BrokerTypes /\ RowsOK /\ vm \in [Holders -> VmType]
    BY EndTypes DEF BrokerInv, BrokerTypes
  <1>2. PICK late \in SUBSET InFlight(b) : vm' = Vanish(b, late, vm, FALSE)
    BY DEF Crash
  <1>3. Stopped(b) /\ UNCHANGED inst /\ UNCHANGED row
    BY DEF Crash
  <1>4. RowsOK' /\ \A h \in Holders : Held(h) <=> Held(h)'
    BY <1>1, <1>3, SameRows
  <1>5. \A g \in Holders :
           \/ /\ IF g \in Runs THEN Knows(b, g) ELSE flow[g].by = b /\ flow[g].phase = "creating"
              /\ Written(g)' => row[g].owner = b /\ Live(g)
           \/ /\ Written(g)' => Written(g)
              /\ vm[g].prov # b => vm'[g].prov = vm[g].prov
    BY <1>1, <1>2, LateVms DEF Written, Up
  <1>6. VmHeld'
    BY <1>1, ConstantTypes, <1>4, <1>5 DEF RowsOK, Held, BrokerInv, VmHeld
  <1>7. /\ \A t \in Terminals : Written(t)' => Written(t) \/ flow[t].phase = "creating"
        /\ \A e \in Envs : Written(e)' => Written(e) \/ flow[e].by = b
        /\ \A a \in Runs : Written(a)' =>
                \/ Knows(b, a)
                \/ Written(a) /\ (vm[a].prov # b => vm'[a].prov = vm[a].prov)
    BY <1>5, ConstantTypes, SandboxBrokerAssumption
  <1>8. \A c \in Brokers : c # b => inst'[c] = inst[c]
    BY <1>3
  <1> QED BY <1>1, <1>3, <1>4, <1>6, <1>7, <1>8, StoppedKeeps

\* The shutdown of a replica keeps the invariant.
LEMMA CloseKeeps ==
    ASSUME BrokerInv, NEW b \in Brokers, Close(b)
    PROVE  BrokerInv'
  <1> DEFINE swept == {h \in Holders : vm[h].prov = b \/ h \in mem[b].open}
             v == [h \in Holders |-> IF h \in swept THEN NoVm ELSE vm[h]]
             done(h) == IF ~CanSet(b, h) THEN row[h].state
                   ELSE IF h \in Known(b) THEN "released"
                   ELSE IF h \in mem[b].open THEN IF h \in Envs THEN "failed" ELSE "released"
                   ELSE IF Live(h) /\ h \notin Terminals /\ row[h].state # "requested"
                   THEN "unknown" ELSE row[h].state
  <1>1. BrokerTypes' /\ BrokerTypes /\ RowsOK /\ vm \in [Holders -> VmType] /\ row \in [Holders -> RowType]
    BY EndTypes DEF BrokerInv, BrokerTypes
  <1>2. PICK late \in SUBSET InFlight(b) : vm' = Vanish(b, late, v, TRUE)
    BY DEF Close
  <1>3. /\ Stopped(b) /\ inst' = [inst EXCEPT ![b] = IF @ = "ready" THEN "stopped" ELSE @]
        /\ row' = [h \in Holders |-> [row[h] EXCEPT !.state = done(h)]]
    BY DEF Close
  <1>4. v \in [Holders -> VmType]
    BY <1>1, NothingTypes
  <1>5. ASSUME NEW h \in Holders
        PROVE  /\ row'[h].state = done(h) /\ row'[h].owner = row[h].owner
               /\ done(h) = row[h].state => row'[h] = row[h]
    <2> HIDE DEF done
    <2>1. row[h] \in RowType /\ row'[h] = [row[h] EXCEPT !.state = done(h)]
      BY <1>1, <1>3
    <2> QED BY <2>1 DEF RowType
  <1>6. ASSUME NEW h \in Holders, done(h) # row[h].state
        PROVE  /\ row[h].owner = b /\ row[h].state \notin {"released", "none", "requested"}
               /\ done(h) \in {"released", "failed", "unknown"}
               /\ done(h) = "failed" => h \in Envs
               /\ done(h) = "unknown" => h \notin Terminals /\ Held(h)
               /\ done(h) \in {"released", "failed"} => h \in Known(b) \/ h \in mem[b].open
    BY <1>1, <1>6, ConstantTypes DEF CanSet, RowsOK, Held
  <1> HIDE DEF done
  <1>7. ASSUME NEW h \in Holders
        PROVE  /\ Held(h)' => Held(h)
               /\ Held(h) => Held(h)' \/ h \in Known(b) \/ h \in mem[b].open
    BY <1>5, <1>6 DEF Held, Live, LiveActivation, LiveTerminal, LiveEnvironment
  <1>8. RowsOK'
    BY <1>1, <1>5, <1>6, SandboxBrokerAssumption DEF RowsOK, LiveActivation, LiveTerminal,
       LiveEnvironment
  <1>9. \A g \in Holders :
           \/ /\ IF g \in Runs THEN Knows(b, g) ELSE flow[g].by = b /\ flow[g].phase = "creating"
              /\ ~Written(g)'
           \/ /\ Written(g)' => Written(g) /\ vm[g].prov # b /\ g \notin mem[b].open
              /\ vm[g].prov # b /\ g \notin mem[b].open => vm'[g].prov = vm[g].prov
    <2> SUFFICES ASSUME NEW g \in Holders
                 PROVE
           \/ /\ IF g \in Runs THEN Knows(b, g) ELSE flow[g].by = b /\ flow[g].phase = "creating"
              /\ ~Written(g)'
           \/ /\ Written(g)' => Written(g) /\ vm[g].prov # b /\ g \notin mem[b].open
              /\ vm[g].prov # b /\ g \notin mem[b].open => vm'[g].prov = vm[g].prov
      OBVIOUS
    <2>1. \/ g \in swept /\ v[g] = NoVm
          \/ v[g] = vm[g] /\ vm[g].prov # b /\ g \notin mem[b].open
      OBVIOUS
    <2>2. g \in swept => vm[g].prov = b \/ g \in mem[b].open
      OBVIOUS
    <2> HIDE DEF v, swept
    <2>3. \/ /\ IF g \in Runs THEN Knows(b, g) ELSE flow[g].by = b /\ flow[g].phase = "creating"
             /\ Written(g)' => ~TRUE /\ row[g].owner = b /\ Live(g)
          \/ /\ Written(g)' => v[g].state # "none" /\ ~v[g].stray
             /\ v[g].prov # b => vm'[g].prov = v[g].prov
      BY <1>2, <1>4, LateVms
    <2> QED BY <2>1, <2>2, <2>3, NoneNothing DEF Written, Up
  <1>10. ASSUME NEW g \in Holders, Written(g)'
         PROVE  Written(g) /\ Held(g)'
    BY <1>9, <1>10, <1>7 DEF BrokerInv, VmHeld, Known, Knows, KnownIn, HomesOK
  <1>11. VmHeld'
    BY <1>10 DEF VmHeld
  <1>12. /\ \A t \in Terminals : Written(t)' => Written(t) \/ flow[t].phase = "creating"
         /\ \A e \in Envs : Written(e)' => Written(e) \/ flow[e].by = b
    BY <1>10, ConstantTypes
  <1>13. \A a \in Runs : Written(a)' =>
                \/ Knows(b, a)
                \/ Written(a) /\ (vm[a].prov # b => vm'[a].prov = vm[a].prov)
    BY <1>9, ConstantTypes
  <1>14. \A h \in Holders : \/ row'[h] = row[h]
                            \/ /\ row[h].owner = b /\ row[h].state # "released"
                               /\ row'[h].state # "none"
    BY <1>5, <1>6
  <1>15. /\ \A c \in Brokers : c # b => inst'[c] = inst[c]
         /\ inst'[b] = "absent" => inst[b] = "absent"
    BY <1>1, <1>3 DEF BrokerTypes
  <1> QED BY <1>1, <1>3, <1>7, <1>8, <1>11, <1>12, <1>13, <1>14, <1>15, StoppedKeeps

\* An activation that was never created stays so while its Run is queued.
NoneStays == \A r \in Runs : run[r] = "queued" /\ row[r].state = "none" => row'[r].state = "none"
\* No Run becomes queued again.
RunsMove == \A r \in Runs : run'[r] = "queued" => run[r] = "queued"

\* SetState writes no row without an owner.
LEMMA SetNone ==
    ASSUME BrokerInv, NEW b \in Brokers, NEW h, NEW s, NEW r \in Runs, row[r].state = "none"
    PROVE  SetState(b, h, s)[r] = row[r]
  BY ConstantTypes DEF BrokerInv, RowsOK, BrokerTypes, CanSet, SetState

\* A step that writes rows by SetState only creates no activation.
LEMMA SetKeepsNone ==
    ASSUME BrokerInv, NEW b \in Brokers, NEW h, NEW s, row' = SetState(b, h, s) \/ row' = row
    PROVE  NoneStays
  BY SetNone DEF NoneStays

\* Where the Runs stay, none becomes queued.
LEMMA RunsStay == UNCHANGED run => RunsMove
  BY DEF RunsMove

\* The two make QueuedOK inductive.
LEMMA QueuedStep == QueuedOK /\ NoneStays /\ RunsMove => QueuedOK'
  BY DEF QueuedOK, NoneStays, RunsMove

\* Reserving an activation that exists creates none.
LEMMA ReservedKeepsNone ==
    ASSUME BrokerInv, NEW a \in Holders, NEW b, NEW q, row[a].state # "none", row' = Reserved(b, a, q)
    PROVE  NoneStays
  BY ConstantTypes DEF BrokerInv, BrokerTypes, NoneStays, Reserved

\* Leases: no activation is created.
LEMMA QueuedInstances ==
    ASSUME BrokerInv, NEW b \in Brokers, Start(b) \/ Renew(b) \/ LeaseExpires(b)
    PROVE  NoneStays /\ RunsMove
  <1>1. UNCHANGED run
    BY DEF Start, Renew, LeaseExpires
  <1>2. CASE UNCHANGED row
    BY <1>1, <1>2, RunsStay DEF NoneStays
  <1>3. CASE \E i : MarkExpiredOwnersLost(i)
    BY <1>3, ConstantTypes, <1>1, RunsStay DEF MarkExpiredOwnersLost, Live, LiveActivation,
       Orphaned, NoneStays
  <1> QED BY <1>2, <1>3 DEF Start, Renew, LeaseExpires

\* A create opens its Run when it creates its activation.
LEMMA QueuedCreates ==
    ASSUME BrokerInv, NEW b \in Brokers, NEW r \in Runs,
           CreateCold(b, r) \/ CreateWarm(b, r) \/ CreateDelegated(b, r)
    PROVE  QueuedOK => QueuedOK'
  <1>1. /\ row \in [Holders -> RowType] /\ run \in [Runs -> {"queued", "open", "ended"}]
        /\ r \in Holders /\ mem[b] \in MemoryType
    BY ConstantTypes DEF BrokerInv, BrokerTypes
  <1>2. RunsMove
    BY <1>1 DEF RunsMove, CreateCold, CreateWarm, CreateDelegated
  <1>3. CASE CreateCold(b, r)
    BY <1>3, <1>1, ConstantTypes DEF CreateCold, Reserved, QueuedOK
  <1>4. CASE CreateWarm(b, r)
    <2>1. PICK a : a = mem[b].warm[WorkspaceOf[r]].id
      OBVIOUS
    <2>2. mem[b].warm[WorkspaceOf[r]] # NoWarm /\ (row' = row \/ row' = Reserved(b, a, r))
      BY <1>4, <2>1 DEF CreateWarm
    <2>3. WorkspaceOf[r] \in Workspaces /\ a \in Runs
      BY <1>1, <2>1, <2>2, ConstantTypes DEF MemoryType, WarmType
    <2>4. row[a].state # "none" /\ a \in Holders
      BY <2>1, <2>3, ConstantTypes DEF BrokerInv, HomesOK, Knows, KnownIn
    <2>5. NoneStays
      BY <2>2, <2>4, ReservedKeepsNone DEF NoneStays
    <2> QED BY <1>2, <2>5, QueuedStep
  <1>5. CASE CreateDelegated(b, r)
    <2>1. PICK a \in ActiveAt(b, WorkspaceOf[r]) : row' = row \/ row' = Reserved(b, a, r)
      BY <1>5 DEF CreateDelegated
    <2>2. row[a].state # "none" /\ a \in Holders
      BY <2>1, ConstantTypes DEF ActiveAt, BrokerInv, HomesOK, Knows, KnownIn
    <2>3. NoneStays
      BY <2>1, <2>2, ReservedKeepsNone DEF NoneStays
    <2> QED BY <1>2, <2>3, QueuedStep
  <1> QED BY <1>3, <1>4, <1>5

\* A release restores and keeps activations that exist.
LEMMA QueuedRelease ==
    ASSUME BrokerInv, NEW b \in Brokers, NEW r \in Runs, FinishRelease(b, r)
    PROVE  NoneStays /\ RunsMove
  <1> DEFINE c == closing[r]
             w == WorkspaceOf[r]
  <1>1. UNCHANGED run /\ c.by = b /\ r \in Holders /\ row \in [Holders -> RowType]
    BY ConstantTypes DEF FinishRelease, BrokerInv, BrokerTypes
  <1>2. PICK freed : /\ freed = mem[b] \/ freed = ReleaseAdmission(mem[b], c.id)
                     /\ \/ /\ freed.susp[w] # NoWarm
                           /\ row' = row \/ row' = Reserved(b, freed.susp[w].id, freed.susp[w].run)
                        \/ \E out : row' = [h \in Holders |->
                                        IF h = c.id THEN SetState(b, h, "warm")[h]
                                        ELSE IF h \in out THEN SetState(b, h, "released")[h]
                                        ELSE row[h]]
                        \/ row' = row
                        \/ row' = SetState(b, c.id, "released")
    BY DEF FinishRelease, RestoreSuspended
  <1>3. CASE \E out : row' = [h \in Holders |->
                                        IF h = c.id THEN SetState(b, h, "warm")[h]
                                        ELSE IF h \in out THEN SetState(b, h, "released")[h]
                                        ELSE row[h]]
    BY <1>1, RunsStay, <1>3, SetNone, ConstantTypes DEF NoneStays
  <1>4. CASE row' = row \/ row' = SetState(b, c.id, "released")
    BY <1>1, RunsStay, <1>4, SetKeepsNone
  <1>5. CASE freed.susp[w] # NoWarm /\ row' = Reserved(b, freed.susp[w].id, freed.susp[w].run)
    <2>1. mem[b] \in MemoryType /\ freed.susp = mem[b].susp /\ w \in Workspaces
      BY ZenonT(60), <1>1, <1>2, ConstantTypes DEF ReleaseAdmission, BrokerInv, BrokerTypes, MemoryType
    <2>2. PICK a : a = mem[b].susp[w].id
      OBVIOUS
    <2>3. a \in Runs
      BY <1>5, <2>1, <2>2 DEF MemoryType, WarmType
    <2>4. row[a].state # "none" /\ a \in Holders
      BY <2>1, <2>2, <2>3, ConstantTypes DEF BrokerInv, HomesOK, Knows, KnownIn
    <2> QED BY <1>1, RunsStay, <1>5, <2>1, <2>2, <2>4, ReservedKeepsNone
  <1> QED BY <1>1, <1>2, <1>3, <1>4, <1>5, RunsStay

\* Discards, admission, provisioning and use: rows change by SetState only.
LEMMA QueuedRuns ==
    ASSUME BrokerInv, NEW b \in Brokers, NEW r \in Runs,
           \/ CreateDiscards(b, r) \/ Execute(b, r) \/ BeginFork(b, r) \/ AbortWait(b, r)
           \/ Provide(b, r) \/ CreateFails(b, r) \/ RecordActive(b, r) \/ Exec(b, r)
           \/ Capture(b, r) \/ ForkWorkspace(b, r) \/ StopUnknown(b, r)
           \/ \E how \in Dispositions : Release(b, r, how)
    PROVE  NoneStays /\ RunsMove
  <1>1. UNCHANGED run
    BY DEF CreateDiscards, DiscardWarm, Execute, BeginFork, AbortWait, Provide, CreateFails,
           RecordActive, Exec, Capture, ForkWorkspace, StopUnknown, Release
  <1>2. CASE CreateDiscards(b, r)
    BY <1>2, <1>1, RunsStay, SetKeepsNone DEF CreateDiscards, DiscardWarm
  <1>3. CASE Execute(b, r) \/ BeginFork(b, r)
    <2>1. row' = row \/ \E h : row' = SetState(b, h, "materializing")
      BY <1>3 DEF Execute, BeginFork, EnterMaterialize
    <2> QED BY <1>1, RunsStay, <2>1, SetKeepsNone
  <1>4. CASE AbortWait(b, r) \/ Exec(b, r) \/ Capture(b, r) \/ ForkWorkspace(b, r)
             \/ StopUnknown(b, r) \/ \E how \in Dispositions : Release(b, r, how)
    <2>1. row' = row
      BY <1>4 DEF AbortWait, Exec, Capture, ForkWorkspace, StopUnknown, Release
    <2> QED BY <1>1, RunsStay, <2>1, SetKeepsNone
  <1>5. CASE Provide(b, r) \/ CreateFails(b, r) \/ RecordActive(b, r)
    BY <1>5, <1>1, RunsStay, SetKeepsNone DEF Provide, CreateFails, RecordActive, FailMaterialize
  <1> QED BY <1>1, <1>2, <1>3, <1>4, <1>5, RunsStay

\* Admission, creation and reaping.
LEMMA QueuedHolders ==
    ASSUME BrokerInv, NEW b \in Brokers, NEW x \in Holders,
           \/ \E w \in Workspaces : ReapWarm(b, w) \/ ReapRetiredWarm(b, w)
           \/ AcquireAdmission(b, x) \/ EvictForAdmission(b, x) \/ WaitEnds(b, x)
           \/ CreateReturns(b, x) \/ ClaimOrphaned(b, x) \/ CleanUp(b, x)
           \/ ProvideHolder(b, x) \/ CreateHolderFails(b, x) \/ RecordHolder(b, x)
    PROVE  NoneStays /\ RunsMove
  <1>1. UNCHANGED run
    BY DEF ReapWarm, ReapRetiredWarm, DiscardWarm, AcquireAdmission, EvictForAdmission, WaitEnds,
           CreateReturns, ClaimOrphaned, CleanUp, ProvideHolder, CreateHolderFails, RecordHolder
  <1>2. CASE \E w \in Workspaces : ReapWarm(b, w) \/ ReapRetiredWarm(b, w)
    BY <1>2, <1>1, RunsStay, SetKeepsNone DEF ReapWarm, ReapRetiredWarm, DiscardWarm
  <1>3. CASE EvictForAdmission(b, x)
    BY <1>3, <1>1, RunsStay, SetKeepsNone DEF EvictForAdmission, DiscardWarm
  <1>4. CASE AcquireAdmission(b, x) \/ WaitEnds(b, x) \/ CreateReturns(b, x) \/ ProvideHolder(b, x)
    <2>1. row' = row
      BY <1>4 DEF AcquireAdmission, WaitEnds, CreateReturns, ProvideHolder
    <2> QED BY <1>1, RunsStay, <2>1, SetKeepsNone
  <1>5. CASE CleanUp(b, x) \/ CreateHolderFails(b, x) \/ RecordHolder(b, x)
    BY <1>5, <1>1, RunsStay, SetKeepsNone DEF CleanUp, CreateHolderFails, RecordHolder, FailHolder
  <1>6. CASE ClaimOrphaned(b, x)
    BY <1>6, <1>1, RunsStay, ConstantTypes DEF ClaimOrphaned, BrokerInv, BrokerTypes, NoneStays
  <1> QED BY <1>1, <1>2, <1>3, <1>4, <1>5, <1>6, RunsStay

\* Claims of ended Runs, and replicas that end.
LEMMA QueuedReaps ==
    ASSUME BrokerInv, NEW b \in Brokers, NEW r \in Runs,
           TerminateAndConfirmAbsent(b, r) \/ ClaimTerminalRun(b, r) \/ Crash(b) \/ Close(b)
    PROVE  NoneStays /\ RunsMove
  <1>1. UNCHANGED run /\ row \in [Holders -> RowType]
    BY DEF TerminateAndConfirmAbsent, ClaimTerminalRun, Crash, Close, BrokerInv, BrokerTypes
  <1>2. CASE TerminateAndConfirmAbsent(b, r)
    BY <1>2, ConstantTypes, <1>1, RunsStay DEF TerminateAndConfirmAbsent, Live, LiveActivation,
       NoneStays
  <1>3. CASE ClaimTerminalRun(b, r)
    BY <1>1, <1>3, ConstantTypes, RunsStay DEF ClaimTerminalRun, NoneStays
  <1>4. CASE Crash(b)
    BY <1>1, <1>4, RunsStay DEF Crash, NoneStays
  <1>5. CASE Close(b)
    BY ConstantTypes, <1>1, <1>5, RunsStay DEF BrokerInv, RowsOK, CanSet, Close, RowType,
       NoneStays
  <1> QED BY <1>2, <1>3, <1>4, <1>5

\* Terminals retire activations that exist.
LEMMA QueuedTerminals ==
    ASSUME BrokerInv, NEW b \in Brokers, NEW t \in Terminals,
           OpenTerminal(b, t) \/ RetireWarm(b, t) \/ CloseTerminal(b, t)
    PROVE  NoneStays /\ RunsMove
  <1>1. UNCHANGED run
    BY DEF OpenTerminal, RetireWarm, CloseTerminal
  <1>2. CASE OpenTerminal(b, t)
    BY <1>2, ConstantTypes, SandboxBrokerAssumption, <1>1, RunsStay DEF OpenTerminal, Live,
       LiveActivation, LiveOf, NoneStays
  <1>3. CASE RetireWarm(b, t) \/ CloseTerminal(b, t)
    <2>1. \E h, s : row' = SetState(b, h, s)
      BY <1>3 DEF RetireWarm, CloseTerminal
    <2> QED BY <1>1, <2>1, SetKeepsNone, RunsStay
  <1> QED BY <1>2, <1>3

\* Environments have rows of their own.
LEMMA QueuedEnvironments ==
    ASSUME BrokerInv, NEW e \in Envs,
           \/ RequestEnvironment(e) \/ WithdrawEnvironment(e) \/ WithdrawCommits(e)
           \/ \E b \in Brokers : \/ ProvisionEnvironment(b, e) \/ PauseEnvironment(b, e)
                                 \/ ResumeEnvironment(b, e) \/ ReleaseEnvironment(b, e)
                                 \/ AttachPty(b, e)
    PROVE  NoneStays /\ RunsMove
  <1>1. UNCHANGED run /\ row \in [Holders -> RowType]
    BY DEF RequestEnvironment, WithdrawEnvironment, WithdrawCommits, ProvisionEnvironment,
           PauseEnvironment, ResumeEnvironment, ReleaseEnvironment, AttachPty, BrokerInv, BrokerTypes
  <1>2. ASSUME NEW q \in Runs PROVE q # e /\ q \in Holders
    BY ConstantTypes, SandboxBrokerAssumption
  <1>3. CASE \/ RequestEnvironment(e) \/ WithdrawEnvironment(e) \/ WithdrawCommits(e)
             \/ \E b \in Brokers : ProvisionEnvironment(b, e)
    BY <1>1, <1>2, <1>3, RunsStay DEF RequestEnvironment, WithdrawEnvironment, WithdrawCommits,
       ProvisionEnvironment, NoneStays
  <1>4. CASE \E b \in Brokers : \/ PauseEnvironment(b, e) \/ ResumeEnvironment(b, e)
                                \/ ReleaseEnvironment(b, e) \/ AttachPty(b, e)
    BY <1>4, <1>1, SetKeepsNone, RunsStay DEF PauseEnvironment, ResumeEnvironment,
       ReleaseEnvironment, AttachPty
  <1> QED BY <1>3, <1>4

\* The invariant holds at first: one replica is up, and nothing is created.
LEMMA BrokerInitially == Init => BrokerInv /\ QueuedOK
  <1> SUFFICES ASSUME Init PROVE BrokerInv /\ QueuedOK
    OBVIOUS
  <1>1. /\ inst \in [Brokers -> {"ready", "absent"}]
        /\ up = [b \in Brokers |-> inst[b] = "ready"]
        /\ row = [h \in Holders |-> [state |-> "none", owner |-> None, run |-> None]]
        /\ op = [r \in Runs |-> [state |-> "none", by |-> None]]
        /\ ran = [r \in Runs |-> 0] /\ run = [r \in Runs |-> "queued"]
        /\ vm = [h \in Holders |-> NoVm] /\ mem = [b \in Brokers |-> EmptyMemory]
        /\ flow = [x \in Holders |-> NoFlow] /\ closing = [r \in Runs |-> NoClose]
        /\ withdraw = {} /\ faults = 0
    BY DEF Init
  <1>2. BrokerTypes
    BY <1>1, NothingTypes DEF RowType, RowState, OpType, BrokerTypes
  <1>3. RowsOK /\ QueuedOK
    BY <1>1, ConstantTypes DEF RowsOK, QueuedOK
  <1>4. \A h \in Holders : ~Held(h) /\ ~Written(h) /\ flow[h] = NoFlow
    BY <1>1 DEF Held, Live, Written, Up, NoVm, LiveActivation, LiveTerminal, LiveEnvironment
  <1>5. FlowsOK /\ EnvFlows /\ VmHeld /\ HeldAlone
    BY <1>4, ConstantTypes DEF FlowsOK, FlowOK, EnvFlows, VmHeld, HeldAlone
  <1>6. DownOK /\ ReapOK
    BY <1>1 DEF DownOK, ReapOK, EmptyMemory
  <1>7. ASSUME NEW a \in Runs, NEW b \in Brokers PROVE ~Knows(b, a)
    BY <1>1, ConstantTypes DEF KnownIn, EmptyMemory, NoAct, NoWarm, NoFlow, NoClose, Knows
  <1>8. HomesOK
    BY <1>7 DEF HomesOK
  <1> QED BY <1>2, <1>3, <1>5, <1>6, <1>8 DEF BrokerInv

\* Every step keeps the invariant: the case analysis over Next.
LEMMA BrokerSteps == BrokerInv /\ QueuedOK /\ [Next]_vars => BrokerInv' /\ QueuedOK'
  <1> SUFFICES ASSUME BrokerInv, QueuedOK, [Next]_vars PROVE BrokerInv' /\ QueuedOK'
    OBVIOUS
  <1>1. CASE UNCHANGED vars
    BY <1>1 DEF vars, BrokerInv, BrokerTypes, RowsOK, FlowsOK, FlowOK, EnvFlows, ReapOK, DownOK,
           VmHeld, HeldAlone, HomesOK, QueuedOK, Held, Live, Written, Up, Knows, KnownIn, Retiring, Current
  <1>2. CASE \E b \in Brokers : Start(b) \/ Renew(b) \/ LeaseExpires(b) \/ Crash(b) \/ Close(b)
    BY <1>2, InstanceKeeps, QueuedInstances, QueuedStep, CrashKeeps, CloseKeeps, QueuedReaps DEF
       QueuedOK
  <1>3. ASSUME NEW b \in Brokers, NEW w \in Workspaces, ReapWarm(b, w) \/ ReapRetiredWarm(b, w)
        PROVE  BrokerInv' /\ QueuedOK'
    BY <1>3, DiscardKeeps, QueuedHolders, QueuedStep, ConstantTypes DEF QueuedOK
  <1>4. ASSUME NEW b \in Brokers, NEW x \in Holders,
               \/ ClaimOrphaned(b, x) \/ CleanUp(b, x) \/ AcquireAdmission(b, x)
               \/ EvictForAdmission(b, x) \/ WaitEnds(b, x) \/ CreateReturns(b, x)
        PROVE  BrokerInv' /\ QueuedOK'
    BY <1>4, ClaimKeeps, CleanUpKeeps, AcquireKeeps, EvictKeeps, CreateReturnsKeeps,
       QueuedHolders, QueuedStep
  <1>5. ASSUME NEW b \in Brokers, NEW x \in Terminals \cup Envs,
               ProvideHolder(b, x) \/ CreateHolderFails(b, x) \/ RecordHolder(b, x)
        PROVE  BrokerInv' /\ QueuedOK'
    BY <1>5, HolderKeeps, QueuedHolders, QueuedStep, ConstantTypes
  <1>6. ASSUME NEW b \in Brokers, NEW t \in Terminals,
               OpenTerminal(b, t) \/ RetireWarm(b, t) \/ CloseTerminal(b, t)
        PROVE  BrokerInv' /\ QueuedOK'
    BY <1>6, OpenTerminalKeeps, RetireWarmKeeps, CloseTerminalKeeps, QueuedTerminals, QueuedStep
  <1>7. ASSUME NEW e \in Envs,
               \/ RequestEnvironment(e) \/ WithdrawEnvironment(e) \/ WithdrawCommits(e)
               \/ \E b \in Brokers : \/ ProvisionEnvironment(b, e) \/ PauseEnvironment(b, e)
                                     \/ ResumeEnvironment(b, e) \/ ReleaseEnvironment(b, e)
                                     \/ AttachPty(b, e)
        PROVE  BrokerInv' /\ QueuedOK'
    BY <1>7, RequestKeeps, ProvisionKeeps, OwnedEnvironmentKeeps, QueuedEnvironments, QueuedStep
  <1>8. ASSUME NEW b \in Brokers, NEW r \in Runs,
               CreateCold(b, r) \/ CreateWarm(b, r) \/ CreateDelegated(b, r)
        PROVE  BrokerInv' /\ QueuedOK'
    BY <1>8, CreateColdKeeps, CreateWarmKeeps, CreateDelegatedKeeps, QueuedCreates
  <1>9. ASSUME NEW b \in Brokers, NEW r \in Runs,
               \/ CreateDiscards(b, r) \/ Execute(b, r) \/ BeginFork(b, r) \/ AbortWait(b, r)
               \/ Provide(b, r) \/ CreateFails(b, r) \/ RecordActive(b, r) \/ Exec(b, r)
               \/ Capture(b, r) \/ ForkWorkspace(b, r) \/ StopUnknown(b, r)
               \/ \E how \in Dispositions : Release(b, r, how)
        PROVE  BrokerInv' /\ QueuedOK'
    BY <1>9, DiscardKeeps, EnterKeeps, AbortKeeps, ProvideKeeps, CreateFailsKeeps, RecordActiveKeeps,
       GuestKeeps, StopUnknownKeeps, ReleaseKeeps, QueuedRuns, QueuedStep
  <1>10. ASSUME NEW b \in Brokers, NEW r \in Runs,
               FinishRelease(b, r) \/ TerminateAndConfirmAbsent(b, r) \/ ClaimTerminalRun(b, r)
        PROVE  BrokerInv' /\ QueuedOK'
    BY <1>10, FinishReleaseKeeps, TerminateKeeps, ClaimTerminalRunKeeps, QueuedRelease, QueuedReaps,
       QueuedStep
  <1>11. ASSUME NEW r \in Runs, EndRun(r) PROVE BrokerInv' /\ QueuedOK'
    BY <1>11, EndRunKeeps DEF EndRun, BrokerInv, BrokerTypes, QueuedOK
  <1> QED
    BY <1>1, <1>2, <1>3, <1>4, <1>5, <1>6, <1>7, <1>8, <1>9, <1>10, <1>11, ConstantTypes
    DEF Next, StepsOf, Holders

\* The invariant holds throughout.
LEMMA BrokerAlways == Spec => [](BrokerInv /\ QueuedOK)
  BY BrokerInitially, BrokerSteps, PTL DEF Spec

\* At most one VM that its reservation accounts for has a Workspace, whatever holders race
\* for it and whatever replicas crash, lose their lease, close or reap meanwhile: the
\* reservations of activation-state-repository.ts and the order in which the Tool Broker
\* writes rows, memory and Cube.
THEOREM WritersAreAlone == Spec => []OneWriter
  <1>1. BrokerInv => OneWriter
    BY DEF OneWriter, Written, BrokerInv, VmHeld, HeldAlone, Retiring
  <1> QED BY <1>1, BrokerAlways, PTL

\* A VM that is up has a live row, so that its owner or a reaper finds it, but for one whose
\* reservation ended before it came up or whose discard failed (stray): no crash, lost lease
\* or failed call of the Tool Broker strands another.
THEOREM RuntimesAreAccounted == Spec => []RuntimesAccounted
  <1>1. BrokerInv => RuntimesAccounted
    BY DEF BrokerInv, VmHeld, RuntimesAccounted, Written, Held
  <1> QED BY <1>1, BrokerAlways, PTL
=============================================================================
