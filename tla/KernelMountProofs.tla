-------------------------- MODULE KernelMountProofs --------------------------
(***************************************************************************)
(* Proofs about KernelMount, for any processes, containers and shares.     *)
(***************************************************************************)
EXTENDS KernelMount, SequenceTheorems, TLAPS

-----------------------------------------------------------------------------
(* The type invariant, with the lock of each container.                    *)

Places == {"idle", "lock", "use"} \cup Critical

\* The part of the types that the processes' places and locks make up.
PlacesOK ==
    /\ lock \in [Containers -> Processes \cup {None}]
    /\ at \in [Processes -> Places]
    /\ conn \in [Processes -> Shares \cup {None}]
    /\ \A p \in Processes : at[p] # "idle" => conn[p] \in Shares
    /\ files \subseteq {p \in Processes : at[p] = "mount" /\ conn[p] \in CifsShares}
    /\ excused \subseteq AtWork
    /\ \A p \in Processes : lock[ContainerOf[p]] = p <=> at[p] \in Critical

LEMMA LeaveKeepsPlaces ==
    ASSUME TypeOK, NEW p \in Processes, at[p] \in Critical,
           NEW next \in {"idle", "use"}, Leave(p, next),
           UNCHANGED <<conn, excused>>, files' \subseteq files \ {p}
    PROVE  PlacesOK'
<1> USE ContainersAssumption, SharesAssumption DEF ContainersAssumption, SharesAssumption
<1>1. at' = [at EXCEPT ![p] = next] /\ lock' = [lock EXCEPT ![ContainerOf[p]] = None]
  BY DEF Leave
<1>2. at' \in [Processes -> Places]
  BY <1>1 DEF TypeOK, Places
<1>3. lock' \in [Containers -> Processes \cup {None}]
  BY <1>1 DEF TypeOK
<1>4. ASSUME NEW q \in Processes
      PROVE  lock'[ContainerOf[q]] = q <=> at'[q] \in Critical
  <2>1. CASE q = p
    <3>1. lock'[ContainerOf[q]] # q
      BY <1>1, <2>1 DEF TypeOK
    <3>2. at'[q] \notin Critical
      BY <1>1, <2>1 DEF TypeOK, Critical
    <3> QED BY <3>1, <3>2
  <2>2. CASE q # p /\ ContainerOf[q] = ContainerOf[p]
    <3>1. lock[ContainerOf[q]] = p
      BY <2>2 DEF TypeOK
    <3>2. at[q] \notin Critical /\ at'[q] = at[q]
      BY <1>1, <2>2, <3>1 DEF TypeOK
    <3>3. lock'[ContainerOf[q]] # q
      BY <1>1, <2>2 DEF TypeOK
    <3> QED BY <3>2, <3>3
  <2>3. CASE q # p /\ ContainerOf[q] # ContainerOf[p]
    BY <1>1, <2>3 DEF TypeOK
  <2> QED BY <2>1, <2>2, <2>3
<1>5. (files \subseteq {q \in Processes : at[q] = "mount" /\ conn[q] \in CifsShares})'
  BY <1>1 DEF TypeOK
<1>6. (excused \subseteq AtWork)'
  BY <1>1 DEF TypeOK, AtWork, Critical
<1>7. (\A q \in Processes : at[q] # "idle" => conn[q] \in Shares)'
  BY <1>1 DEF TypeOK, Critical
<1> QED BY <1>2, <1>3, <1>4, <1>5, <1>6, <1>7 DEF PlacesOK, TypeOK

LEMMA MoveKeepsPlaces ==
    ASSUME TypeOK, NEW p \in Processes, NEW next \in Places,
           at' = [at EXCEPT ![p] = next], at[p] \in Critical <=> next \in Critical,
           UNCHANGED lock, conn' \in [Processes -> Shares \cup {None}],
           next # "idle" => conn'[p] \in Shares,
           \A q \in Processes \ {p} : conn'[q] = conn[q],
           files' \subseteq {q \in files : q # p} \cup
                            {q \in {p} : next = "mount" /\ conn'[p] \in CifsShares},
           excused' \subseteq {q \in AtWork : q # p}
    PROVE  PlacesOK'
<1>1. at' \in [Processes -> Places]
  BY DEF TypeOK, Places
<1>2. (\A q \in Processes : lock[ContainerOf[q]] = q <=> at[q] \in Critical)'
  BY DEF TypeOK
<1>3. (\A q \in Processes : at[q] # "idle" => conn[q] \in Shares)'
  BY DEF TypeOK
<1>4. (files \subseteq {q \in Processes : at[q] = "mount" /\ conn[q] \in CifsShares})'
  BY DEF TypeOK
<1>5. (excused \subseteq AtWork)'
  BY DEF TypeOK, AtWork
<1> QED BY <1>1, <1>2, <1>3, <1>4, <1>5 DEF PlacesOK, TypeOK

\* A step from one critical place to the next that leaves the rest alone.
LEMMA NextPlace ==
    ASSUME TypeOK, NEW p \in Processes, NEW next \in Critical, at[p] \in Critical,
           at' = [at EXCEPT ![p] = next], UNCHANGED <<lock, conn, files, excused>>,
           p \notin files, p \notin excused, conn[p] \in Shares
    PROVE  PlacesOK'
<1>1. next \in Places
  BY DEF Places
<1>2. conn' \in [Processes -> Shares \cup {None}]
  BY DEF TypeOK
<1>3. files' \subseteq {q \in files : q # p} \cup
                        {q \in {p} : next = "mount" /\ conn'[p] \in CifsShares}
  OBVIOUS
<1>4. excused' \subseteq {q \in AtWork : q # p}
  BY DEF TypeOK
<1> QED BY <1>1, <1>2, <1>3, <1>4, MoveKeepsPlaces

LEMMA TypeInit == Init => TypeOK
<1> SUFFICES ASSUME Init PROVE TypeOK
  OBVIOUS
<1>1. stack \in Seq(Mounts)
  <2>1. CASE stack = <<>>
    BY <2>1
  <2>2. CASE \E m \in Mounts : stack = <<m>>
    BY <2>2
  <2> QED BY <2>1, <2>2 DEF Init
<1>2. \A p \in Processes : lock[ContainerOf[p]] = None /\ None # p /\ at[p] = "idle"
  BY SharesAssumption, ContainersAssumption
     DEF Init, SharesAssumption, ContainersAssumption
<1>4. /\ lock \in [Containers -> Processes \cup {None}]
      /\ at \in [Processes -> {"idle", "lock", "use"} \cup Critical]
      /\ conn \in [Processes -> Shares \cup {None}]
      /\ helper \in [Processes -> Shares \cup {None}]
      /\ rivals \in [Processes -> SUBSET Processes]
  BY DEF Init
<1>5. uses \in 0..MaxUses
  BY BoundsAssumption DEF Init, BoundsAssumption
<1> QED BY <1>1, <1>2, <1>4, <1>5 DEF Init, TypeOK, Critical

\* What Leave does to the history of rivals.
LEMMA LeaveKeepsRivals ==
    ASSUME TypeOK, NEW p \in Processes, NEW next, Leave(p, next)
    PROVE  rivals' \in [Processes -> SUBSET Processes]
  BY DEF Leave, TypeOK, AboutToMount

LEMMA TypeStep == TypeOK /\ [Next]_vars => TypeOK'
<1> SUFFICES ASSUME TypeOK, [Next]_vars PROVE TypeOK'
  OBVIOUS
<1> USE ContainersAssumption, SharesAssumption, BoundsAssumption
    DEF ContainersAssumption, SharesAssumption, BoundsAssumption
<1>1. ASSUME NEW p \in Processes, Open(p) PROVE TypeOK'
  <2>0. PlacesOK'
    <3>1. conn' \in [Processes -> Shares \cup {None}] /\ conn'[p] \in Shares
      BY <1>1 DEF Open, TypeOK
    <3>2. p \notin files /\ p \notin excused
      BY <1>1 DEF Open, TypeOK, AtWork
    <3>3. \A q \in Processes \ {p} : conn'[q] = conn[q]
      BY <1>1 DEF Open, TypeOK
    <3>4. /\ at' = [at EXCEPT ![p] = "lock"] /\ at[p] = "idle"
          /\ UNCHANGED <<lock, files, excused>>
      BY <1>1 DEF Open, checks
    <3>5. "lock" \in Places /\ "lock" \notin Critical /\ at[p] \notin Critical
      BY <3>4 DEF Places, Critical
    <3>6. /\ files' \subseteq {q \in files : q # p} \cup
                             {q \in {p} : "lock" = "mount" /\ conn'[p] \in CifsShares}
          /\ excused' \subseteq {q \in AtWork : q # p}
      BY <3>2, <3>4 DEF TypeOK
    <3> QED BY <3>1, <3>3, <3>4, <3>5, <3>6, MoveKeepsPlaces
  <2>2. uses' \in 0..MaxUses
    BY <1>1 DEF Open, TypeOK
  <2> QED BY <1>1, <2>0, <2>2 DEF Open, TypeOK, PlacesOK, Places, checks
<1>2. ASSUME NEW p \in Processes, Acquire(p) PROVE TypeOK'
  <2>1. /\ at' \in [Processes -> {"idle", "lock", "use"} \cup Critical]
        /\ lock' \in [Containers -> Processes \cup {None}]
    BY <1>2 DEF Acquire, TypeOK, Critical
  <2>2. ASSUME NEW q \in Processes
        PROVE  lock'[ContainerOf[q]] = q <=> at'[q] \in Critical
    <3>1. CASE q = p
      BY <1>2, <3>1 DEF Acquire, TypeOK, Critical
    <3>2. CASE q # p /\ ContainerOf[q] = ContainerOf[p]
      BY <1>2, <3>2 DEF Acquire, TypeOK
    <3>3. CASE q # p /\ ContainerOf[q] # ContainerOf[p]
      BY <1>2, <3>3 DEF Acquire, TypeOK
    <3> QED BY <3>1, <3>2, <3>3
  <2>3. (files \subseteq {q \in Processes : at[q] = "mount" /\ conn[q] \in CifsShares})'
    BY <1>2 DEF Acquire, TypeOK
  <2>4. (excused \subseteq AtWork)'
    BY <1>2 DEF Acquire, TypeOK, AtWork, checks
  <2> QED BY <1>2, <2>1, <2>2, <2>3, <2>4 DEF Acquire, TypeOK, counters, checks
<1>3. ASSUME NEW p \in Processes, FindState(p) PROVE TypeOK'
  <2>1. PlacesOK' /\ rivals' \in [Processes -> SUBSET Processes]
    <3>0. p \notin files /\ p \notin excused /\ conn[p] \in Shares
      BY <1>3 DEF FindState, TypeOK, AtWork
    <3>1. CASE at' = [at EXCEPT ![p] = "prepare"] /\ UNCHANGED <<lock, rivals>>
      <4>0. "prepare" \in Critical /\ at[p] \in Critical /\ UNCHANGED <<conn, files, excused>>
        BY <1>3 DEF FindState, Critical
      <4>1. PlacesOK'
        BY <3>0, <3>1, <4>0, NextPlace
      <4> QED BY <3>1, <4>1 DEF TypeOK
    <3>2. CASE \E next \in {"idle", "use"} : Leave(p, next)
      BY <1>3, <3>0, <3>2, LeaveKeepsPlaces, LeaveKeepsRivals DEF FindState, Critical, TypeOK
    <3> QED BY <1>3, <3>1, <3>2 DEF FindState
  <2> QED BY <1>3, <2>1 DEF FindState, TypeOK, counters, PlacesOK, Places
<1>4. ASSUME NEW p \in Processes, Prepare(p) PROVE TypeOK'
  <2>1. PlacesOK' /\ rivals' \in [Processes -> SUBSET Processes]
    <3>0. p \notin files /\ p \notin excused /\ conn[p] \in Shares
      BY <1>4 DEF Prepare, TypeOK, AtWork
    <3>1. CASE at' = [at EXCEPT ![p] = "credentials"] /\ UNCHANGED <<lock, rivals>>
      <4>0. "credentials" \in Critical /\ at[p] \in Critical /\ UNCHANGED <<conn, files, excused>>
        BY <1>4 DEF Prepare, Critical
      <4>1. PlacesOK'
        BY <3>0, <3>1, <4>0, NextPlace
      <4> QED BY <3>1, <4>1 DEF TypeOK
    <3>2. CASE Leave(p, "idle")
      BY <1>4, <3>0, <3>2, LeaveKeepsPlaces, LeaveKeepsRivals DEF Prepare, Critical, TypeOK
    <3> QED BY <1>4, <3>1, <3>2 DEF Prepare
  <2>2. blind' \subseteq Processes /\ beneath' \in {"absent", "empty", "filled", "symlink"}
    BY <1>4 DEF Prepare, TypeOK
  <2> QED BY <1>4, <2>1, <2>2 DEF Prepare, TypeOK, counters, PlacesOK, Places
<1>5. ASSUME NEW p \in Processes, WriteCredentials(p) PROVE TypeOK'
  <2>1. PlacesOK' /\ rivals' \in [Processes -> SUBSET Processes]
    <3>0. p \notin files /\ p \notin excused /\ conn[p] \in Shares
      BY <1>5 DEF WriteCredentials, TypeOK, AtWork
    <3>1. CASE /\ at' = [at EXCEPT ![p] = "mount"] /\ UNCHANGED <<lock, rivals>>
               /\ files' = IF conn[p] \in CifsShares THEN files \cup {p} ELSE files
      <4>1. PlacesOK'
        BY <1>5, <3>0, <3>1, MoveKeepsPlaces DEF WriteCredentials, Critical, Places, TypeOK
      <4> QED BY <3>1, <4>1 DEF TypeOK
    <3>2. CASE Leave(p, "idle") /\ UNCHANGED files
      BY <1>5, <3>0, <3>2, LeaveKeepsPlaces, LeaveKeepsRivals
         DEF WriteCredentials, Critical, TypeOK
    <3> QED BY <1>5, <3>1, <3>2 DEF WriteCredentials
  <2> QED BY <1>5, <2>1 DEF WriteCredentials, TypeOK, counters, PlacesOK, Places
<1>6. ASSUME NEW p \in Processes, Mount(p) PROVE TypeOK'
  <2>0. p \notin excused /\ conn[p] \in Shares /\ UNCHANGED conn /\ files' = files \ {p}
    BY <1>6 DEF Mount, TypeOK, AtWork
  <2>1. PlacesOK' /\ rivals' \in [Processes -> SUBSET Processes]
    <3>1. CASE /\ at' = [at EXCEPT ![p] = "verify"] /\ UNCHANGED <<lock, helper, rivals>>
               /\ excused' = excused \cup
                    {q \in AtWork : p \in rivals[q] /\ ContainerOf[p] # ContainerOf[q]}
      <4>1. excused' \subseteq {q \in AtWork : q # p}
        BY <1>6, <2>0, <3>1 DEF Mount, TypeOK, AtWork
      <4>2. PlacesOK'
        BY <1>6, <2>0, <3>1, <4>1, MoveKeepsPlaces DEF Mount, Critical, Places, TypeOK
      <4> QED BY <3>1, <4>2 DEF TypeOK
    <3>2. CASE Leave(p, "idle") /\ UNCHANGED <<stack, excused>>
      BY <1>6, <2>0, <3>2, LeaveKeepsPlaces, LeaveKeepsRivals DEF Mount, Critical, TypeOK
    <3> QED BY <1>6, <3>1, <3>2 DEF Mount
  <2>3. MountOf(conn[p], p) \in Mounts
    BY <2>0 DEF MountOf, Mounts
  <2>4. stack' \in Seq(Mounts) /\ helper' \in [Processes -> Shares \cup {None}]
    <3>1. CASE stack' = Append(stack, MountOf(conn[p], p)) /\ UNCHANGED helper
      BY <2>3, <3>1 DEF TypeOK
    <3>2. CASE UNCHANGED stack /\ \E s \in LeftBehind(p) : helper' = [helper EXCEPT ![p] = s]
      BY <2>0, <3>2 DEF TypeOK, LeftBehind
    <3> QED BY <1>6, <3>1, <3>2 DEF Mount
  <2> QED BY <1>6, <2>1, <2>4 DEF Mount, TypeOK, counters, PlacesOK, Places
<1>7. ASSUME NEW p \in Processes, Verify(p) PROVE TypeOK'
  <2>1. PlacesOK' /\ rivals' \in [Processes -> SUBSET Processes]
    <3>1. p \notin files
      BY <1>7 DEF Verify, TypeOK
    <3>2. \E next \in {"idle", "use"} : Leave(p, next)
      BY <1>7 DEF Verify
    <3> QED BY <1>7, <3>1, <3>2, LeaveKeepsPlaces, LeaveKeepsRivals DEF Verify, Critical, TypeOK
  <2> QED BY <1>7, <2>1 DEF Verify, TypeOK, counters, PlacesOK, Places
<1>8. ASSUME NEW p \in Processes, Use(p) PROVE TypeOK'
  <2>1. PlacesOK'
    <3>1. p \notin files /\ excused' \subseteq {q \in AtWork : q # p}
      BY <1>8 DEF Use, TypeOK, AtWork
    <3> QED BY <1>8, <3>1, MoveKeepsPlaces DEF Use, Critical, Places, TypeOK
  <2>2. beneath' \in {"absent", "empty", "filled", "symlink"} /\ blind' \subseteq Processes
    BY <1>8 DEF Use, TypeOK, Unlooking
  <2>3. rivals' \in [Processes -> SUBSET Processes]
    BY <1>8 DEF Use, TypeOK
  <2>4. reached' \subseteq [asked : Shares, got : Shares \cup {None}, excused : BOOLEAN]
    <3> DEFINE got == IF stack = <<>> THEN None ELSE Last(stack).share
               no == p \in excused
    <3>1. got \in Shares \cup {None}
      <4>1. CASE stack # <<>>
        <5>1. stack \in Seq(Mounts) /\ Len(stack) \in 1..Len(stack)
          BY <4>1 DEF TypeOK
        <5>2. Last(stack) \in Mounts
          BY <5>1 DEF Last
        <5> QED BY <4>1, <5>2 DEF Mounts
      <4> QED BY <4>1
    <3>2. conn[p] \in Shares
      BY <1>8 DEF Use, TypeOK
    <3>3. reached' = {[asked |-> conn[p], got |-> got, excused |-> no]}
      BY <1>8 DEF Use
    <3>4. no \in BOOLEAN
      BY DEF no
    <3> HIDE DEF got, no
    <3> QED BY <3>1, <3>2, <3>3, <3>4
  <2> QED BY <1>8, <2>1, <2>2, <2>3, <2>4 DEF Use, TypeOK, counters, PlacesOK, Places
<1>9. ASSUME NEW p \in Processes, LateMount(p) PROVE TypeOK'
  <2> DEFINE m == MountOf(helper[p], p)
  <2>1. m \in Mounts
    BY <1>9 DEF LateMount, TypeOK, Mounts, MountOf
  <2>2. stack' \in {stack} \cup {Append(stack, m)} /\ excused' \subseteq excused \cup AtWork
    BY <1>9 DEF LateMount
  <2>3. stack \in Seq(Mounts)
    BY DEF TypeOK
  <2>4. Append(stack, m) \in Seq(Mounts)
    BY <2>1, <2>3, AppendProperties
  <2>5. stack' \in Seq(Mounts)
    BY <2>2, <2>3, <2>4
  <2>6. excused' \subseteq AtWork'
    BY <1>9, <2>2 DEF LateMount, AtWork, TypeOK
  <2>7. helper' \in [Processes -> Shares \cup {None}]
    BY <1>9 DEF LateMount, TypeOK
  <2> QED BY <1>9, <2>5, <2>6, <2>7 DEF LateMount, TypeOK, counters
<1>10. ASSUME NEW s \in Shares, Edit(s) PROVE TypeOK'
  BY <1>10 DEF Edit, TypeOK, checks, AtWork
<1>11. ASSUME NEW c \in Containers, Restart(c) PROVE TypeOK'
  <2>1. /\ at' = [p \in Processes |-> IF ContainerOf[p] = c THEN "idle" ELSE at[p]]
        /\ helper' = [p \in Processes |-> IF ContainerOf[p] = c THEN None ELSE helper[p]]
        /\ rivals' = [p \in Processes |-> IF ContainerOf[p] = c THEN {} ELSE rivals[p]]
        /\ files' = files \ {p \in Processes : ContainerOf[p] = c}
        /\ excused' = excused \ {p \in Processes : ContainerOf[p] = c}
    BY <1>11 DEF Restart
  <2>2. /\ at' \in [Processes -> {"idle", "lock", "use"} \cup Critical]
        /\ helper' \in [Processes -> Shares \cup {None}]
        /\ rivals' \in [Processes -> SUBSET Processes]
    BY <2>1 DEF TypeOK
  <2>3. (files \subseteq {p \in Processes : at[p] = "mount" /\ conn[p] \in CifsShares})'
    BY <1>11, <2>1 DEF TypeOK, Restart
  <2>4. (excused \subseteq AtWork)'
    BY <2>1 DEF TypeOK, AtWork
  <2>5. lock' = [lock EXCEPT ![c] = None]
    BY <1>11 DEF Restart
  <2>6. ASSUME NEW p \in Processes PROVE lock'[ContainerOf[p]] = p <=> at'[p] \in Critical
    BY <2>1, <2>5 DEF TypeOK, Critical
  <2> QED BY <1>11, <2>1, <2>2, <2>3, <2>4, <2>5, <2>6 DEF Restart, TypeOK
<1>12. ASSUME Umount PROVE TypeOK'
  <2>1. stack \in Seq(Mounts) /\ stack' = Front(stack) /\ stack # <<>>
    BY <1>12 DEF Umount, TypeOK
  <2>2. stack' \in Seq(Mounts)
    BY <2>1 DEF Front
  <2>3. (excused \subseteq AtWork)'
    BY <1>12 DEF Umount, TypeOK, AtWork
  <2> QED BY <1>12, <2>2, <2>3 DEF Umount, TypeOK
<1>13. ASSUME NEW p \in Processes, Kill(p) PROVE TypeOK'
  <2>1. /\ at' = [at EXCEPT ![p] = "idle"]
        /\ lock' = [c \in Containers |-> IF lock[c] = p THEN None ELSE lock[c]]
        /\ files' = files \ {p} /\ excused' = excused \ {p} /\ UNCHANGED conn
    BY <1>13 DEF Kill
  <2>2. ASSUME NEW q \in Processes PROVE lock'[ContainerOf[q]] = q <=> at'[q] \in Critical
    BY <2>1 DEF TypeOK, Critical
  <2>3. (files \subseteq {q \in Processes : at[q] = "mount" /\ conn[q] \in CifsShares})'
    BY <2>1 DEF TypeOK
  <2>4. (excused \subseteq AtWork)'
    BY <2>1 DEF TypeOK, AtWork
  <2>5. /\ at' \in [Processes -> {"idle", "lock", "use"} \cup Critical]
        /\ lock' \in [Containers -> Processes \cup {None}]
    BY <2>1 DEF TypeOK
  <2>6. helper' \in [Processes -> Shares \cup {None}] /\ rivals' \in [Processes -> SUBSET Processes]
    BY <1>13 DEF Kill, TypeOK
  <2>7. leftover' \subseteq Containers
    BY <1>13 DEF Kill, TypeOK
  <2>8. (\A q \in Processes : at[q] # "idle" => conn[q] \in Shares)'
    BY <2>1 DEF TypeOK
  <2> QED BY <1>13, <2>2, <2>3, <2>4, <2>5, <2>6, <2>7, <2>8 DEF Kill, TypeOK
<1>14. CASE UNCHANGED vars
  BY <1>14 DEF vars, TypeOK, checks, counters, AtWork
<1> QED BY <1>1, <1>2, <1>3, <1>4, <1>5, <1>6, <1>7, <1>8, <1>9, <1>10, <1>11, <1>12, <1>13, <1>14
        DEF Next, Step

\* The types, and the lock of a container is held by a process exactly while it
\* checks or mounts, in spite of processes that are killed and containers that
\* restart.
THEOREM TypeCorrect == Spec => []TypeOK
<1> QED BY TypeInit, TypeStep, PTL DEF Spec

-----------------------------------------------------------------------------
(* What lies under the mounts.                                             *)

\* Who mounts without another look has seen the directory as it is, or is blind.
LookedInv == \A p \in Unlooking : beneath = "empty" \/ p \in blind

LEMMA LookedStep == ASSUME TypeOK, LookedInv, [Next]_vars PROVE LookedInv'
<1> USE DEF LookedInv, Unlooking
<1>1. ASSUME NEW p \in Processes, Open(p) PROVE LookedInv'
  BY <1>1 DEF Open, TypeOK
<1>2. ASSUME NEW p \in Processes, Acquire(p) PROVE LookedInv'
  BY <1>2 DEF Acquire, TypeOK
<1>3. ASSUME NEW p \in Processes, FindState(p) \/ Verify(p) PROVE LookedInv'
  BY <1>3 DEF FindState, Verify, Leave, TypeOK
<1>4. ASSUME NEW p \in Processes, Prepare(p) PROVE LookedInv'
  <2>1. UNCHANGED helper /\ \A q \in Processes \ {p} : at'[q] = at[q]
    BY <1>4 DEF Prepare, Leave, TypeOK
  <2>2. CASE at' = [at EXCEPT ![p] = "credentials"] /\ stack = <<>>
    <3>1. beneath' = "empty"
      BY <1>4, <2>2 DEF Prepare, Leave, TypeOK
    <3> QED BY <3>1
  <2>3. CASE at' = [at EXCEPT ![p] = "credentials"] /\ stack # <<>>
    <3>1. beneath' = beneath /\ blind' = blind \cup {p}
      BY <1>4, <2>3 DEF Prepare, Leave, TypeOK
    <3> QED BY <2>1, <3>1
  <2>4. CASE Leave(p, "idle") /\ UNCHANGED <<beneath, blind>>
    BY <2>1, <2>4 DEF Leave, TypeOK
  <2> QED BY <1>4, <2>2, <2>3, <2>4 DEF Prepare
<1>5. ASSUME NEW p \in Processes, WriteCredentials(p) PROVE LookedInv'
  BY <1>5 DEF WriteCredentials, Leave, TypeOK
<1>6. ASSUME NEW p \in Processes, Mount(p) PROVE LookedInv'
  BY <1>6 DEF Mount, Leave, LeftBehind, TypeOK
<1>7. ASSUME NEW p \in Processes, Use(p) PROVE LookedInv'
  BY <1>7 DEF Use, TypeOK
<1>8. ASSUME NEW p \in Processes, LateMount(p) PROVE LookedInv'
  BY <1>8 DEF LateMount, TypeOK
<1>9. ASSUME NEW s \in Shares, Edit(s) PROVE LookedInv'
  BY <1>9 DEF Edit
<1>10. ASSUME NEW c \in Containers, Restart(c) PROVE LookedInv'
  BY <1>10 DEF Restart, TypeOK
<1>11. ASSUME NEW p \in Processes, Kill(p) PROVE LookedInv'
  BY <1>11 DEF Kill, TypeOK
<1>12. CASE Umount
  BY <1>12 DEF Umount
<1>13. CASE UNCHANGED vars
  BY <1>13 DEF vars
<1> QED BY <1>1, <1>2, <1>3, <1>4, <1>5, <1>6, <1>7, <1>8, <1>9, <1>10, <1>11, <1>12, <1>13
        DEF Next, Step

\* What a mount puts at a mountpoint that was free.
LEMMA FirstMount ==
    ASSUME NEW m \in Mounts, stack = <<>>, stack' = Append(stack, m)
    PROVE  stack'[1] = m
  OBVIOUS

LEMMA CoverStep ==
    ASSUME TypeOK, LookedInv, [Next]_vars, stack = <<>>, stack' # <<>>
    PROVE  \/ beneath = "empty"
           \/ \E p \in blind : MayHaveMade(stack'[1], p)
<1>1. ASSUME NEW p \in Processes, Mount(p)
      PROVE  beneath = "empty" \/ \E q \in blind : MayHaveMade(stack'[1], q)
  <2>1. MountOf(conn[p], p) \in Mounts
    <3>1. conn[p] \in Shares /\ ContainerOf[p] \in Containers
      BY <1>1, ContainersAssumption DEF Mount, TypeOK, ContainersAssumption
    <3> QED BY <3>1 DEF MountOf, Mounts
  <2>2. stack' = Append(stack, MountOf(conn[p], p))
    BY <1>1 DEF Mount
  <2>3. stack'[1] = MountOf(conn[p], p)
    BY <2>1, <2>2, FirstMount
  <2>4. p \in Unlooking
    BY <1>1 DEF Mount, Unlooking
  <2> QED BY <2>3, <2>4 DEF LookedInv, MayHaveMade
<1>2. ASSUME NEW p \in Processes, LateMount(p)
      PROVE  beneath = "empty" \/ \E q \in blind : MayHaveMade(stack'[1], q)
  <2>1. MountOf(helper[p], p) \in Mounts
    BY <1>2, ContainersAssumption DEF LateMount, TypeOK, MountOf, Mounts, ContainersAssumption
  <2>2. stack' = Append(stack, MountOf(helper[p], p))
    BY <1>2 DEF LateMount
  <2>3. stack'[1] = MountOf(helper[p], p)
    BY <2>1, <2>2, FirstMount
  <2>4. p \in Unlooking
    BY <1>2 DEF LateMount, Unlooking
  <2> QED BY <2>3, <2>4 DEF LookedInv, MayHaveMade
<1>3. ASSUME NEW p \in Processes,
             \/ Open(p) \/ Acquire(p) \/ FindState(p) \/ Prepare(p) \/ WriteCredentials(p)
             \/ Verify(p) \/ Use(p) \/ Kill(p)
      PROVE  FALSE
  BY <1>3 DEF Open, Acquire, FindState, Prepare, WriteCredentials, Verify, Use, Kill
<1>4. ASSUME NEW s \in Shares, Edit(s) PROVE FALSE
  BY <1>4 DEF Edit
<1>5. ASSUME NEW c \in Containers, Restart(c) PROVE FALSE
  BY <1>5 DEF Restart
<1>6. ~Umount
  BY DEF Umount
<1> QED BY <1>1, <1>2, <1>3, <1>4, <1>5, <1>6 DEF Next, Step, vars

\* No mount hides a file unless the file was written after the look at the
\* directory, although check and mount of several containers interleave, mounts
\* are taken away and helpers mount late.
THEOREM NothingHidden == Spec => NothingIsCovered
<1>1. Init => LookedInv
  BY DEF Init, LookedInv, Unlooking
<1>2. TypeOK /\ LookedInv /\ [Next]_vars =>
        [stack = <<>> /\ stack' # <<>> =>
            beneath = "empty" \/ \E p \in blind : MayHaveMade(stack'[1], p)]_vars
  BY CoverStep
<1> QED BY <1>1, <1>2, TypeCorrect, LookedStep, PTL DEF Spec, NothingIsCovered

-----------------------------------------------------------------------------
(* What the operations reach.                                              *)

\* The mount a process works on is the one it has checked, and who could still
\* mount over it had looked before, in another container.
CheckedInv ==
    \A p \in AtWork \ excused :
        /\ StateMatches(p)
        /\ \A q \in AboutToMount : q \in rivals[p] /\ ContainerOf[q] # ContainerOf[p]

ReachInv == CheckedInv /\ OperationsReachTheirShare

\* A successful check makes it so: its container's lock excludes the others.
LEMMA CheckSucceeds ==
    ASSUME TypeOK, CheckedInv, NEW p \in Processes, at[p] \in {"state", "verify"}, StateMatches(p),
           Leave(p, "use"), UNCHANGED <<stack, conn, excused>>
    PROVE  CheckedInv'
<1>1. /\ at' = [at EXCEPT ![p] = "use"]
      /\ rivals' = [rivals EXCEPT ![p] = AboutToMount]
  BY DEF Leave
<1>2. AboutToMount' = AboutToMount
  BY <1>1 DEF AboutToMount, TypeOK
<1>3. AtWork' = AtWork \cup {p}
  BY <1>1 DEF AtWork, TypeOK
<1>4. ASSUME NEW q \in AboutToMount PROVE q \in rivals'[p] /\ ContainerOf[q] # ContainerOf[p]
  <2>1. q \in rivals'[p]
    BY <1>1 DEF TypeOK
  <2>2. q \in Processes /\ at[q] \in Critical /\ at[p] \in Critical /\ q # p
    BY DEF AboutToMount, Critical
  <2> QED BY <2>1, <2>2 DEF TypeOK
<1>5. StateMatches(p)'
  BY DEF StateMatches
<1>6. ASSUME NEW r \in AtWork \ excused, r # p
      PROVE  /\ StateMatches(r)'
             /\ \A q \in AboutToMount : q \in rivals'[r] /\ ContainerOf[q] # ContainerOf[r]
  BY <1>1, <1>6 DEF CheckedInv, StateMatches, TypeOK, AtWork
<1> QED BY <1>2, <1>3, <1>4, <1>5, <1>6 DEF CheckedInv

\* A step that mounts nothing, brings nobody to work and nobody to a mount.
LEMMA NothingNew ==
    ASSUME TypeOK, CheckedInv, UNCHANGED stack, AboutToMount' \subseteq AboutToMount,
           \A p \in (AtWork \ excused)' :
               p \in AtWork \ excused /\ conn'[p] = conn[p] /\ rivals'[p] = rivals[p]
    PROVE  CheckedInv'
  BY DEF CheckedInv, StateMatches

\* A step after which nobody's work goes unexcused but whose went so before.
LEMMA AllExcused ==
    ASSUME excused' = excused \cup AtWork, UNCHANGED at
    PROVE  CheckedInv'
  BY DEF CheckedInv, AtWork

LEMMA ReachStep == ASSUME TypeOK, TypeOK', ReachInv, [Next]_vars PROVE ReachInv'
<1> USE DEF ReachInv
<1>r. ASSUME UNCHANGED reached PROVE OperationsReachTheirShare'
  BY <1>r DEF OperationsReachTheirShare
<1>1. ASSUME NEW p \in Processes, Open(p) PROVE ReachInv'
  <2>1. AboutToMount' \subseteq AboutToMount /\ (AtWork \ excused)' \subseteq AtWork \ excused
        /\ p \notin AtWork
    BY <1>1 DEF Open, AboutToMount, AtWork, TypeOK, checks
  <2>2. \A q \in AtWork : conn'[q] = conn[q]
    BY <1>1, <2>1 DEF Open, TypeOK, AtWork
  <2> QED BY <1>1, <2>1, <2>2, <1>r, NothingNew DEF Open, checks
<1>2. ASSUME NEW p \in Processes, Acquire(p) PROVE ReachInv'
  <2>1. AboutToMount' \subseteq AboutToMount /\ (AtWork \ excused)' \subseteq AtWork \ excused
    BY <1>2 DEF Acquire, AboutToMount, AtWork, TypeOK, checks
  <2> QED BY <1>2, <2>1, <1>r, NothingNew DEF Acquire, checks
<1>3. ASSUME NEW p \in Processes, FindState(p) PROVE ReachInv'
  <2>0. UNCHANGED <<stack, conn, excused, reached>> /\ at[p] = "state"
    BY <1>3 DEF FindState
  <2>1. CASE stack = <<>>
    <3>1. AtWork \ excused = {}
      BY <2>1 DEF CheckedInv, StateMatches
    <3>2. AtWork' \subseteq AtWork \cup (IF at'[p] = "use" THEN {p} ELSE {})
      BY <1>3 DEF FindState, Leave, AtWork, TypeOK
    <3>3. at'[p] # "use"
      BY <1>3, <2>1 DEF FindState, Leave, TypeOK, StateMatches
    <3> QED BY <2>0, <3>1, <3>2, <3>3, <1>r DEF CheckedInv
  <2>2. CASE StateMatches(p) /\ Leave(p, "use")
    BY <2>0, <2>2, <1>r, CheckSucceeds
  <2>3. CASE Leave(p, "idle")
    <3>1. /\ AboutToMount' \subseteq AboutToMount /\ (AtWork \ excused)' \subseteq AtWork \ excused
          /\ \A q \in AtWork : rivals'[q] = rivals[q]
      BY <2>0, <2>3 DEF Leave, AboutToMount, AtWork, TypeOK
    <3> QED BY <2>0, <3>1, <1>r, NothingNew
  <2> QED BY <1>3, <2>1, <2>2, <2>3 DEF FindState
<1>4. ASSUME NEW p \in Processes, Prepare(p) \/ WriteCredentials(p) PROVE ReachInv'
  <2>0. UNCHANGED <<stack, conn, excused, reached>> /\ at[p] \in {"prepare", "credentials"}
    BY <1>4 DEF Prepare, WriteCredentials
  <2>1. /\ AboutToMount' \subseteq AboutToMount /\ (AtWork \ excused)' \subseteq AtWork \ excused
        /\ \A q \in AtWork : rivals'[q] = rivals[q]
    BY <1>4, <2>0 DEF Prepare, WriteCredentials, Leave, AboutToMount, AtWork, TypeOK
  <2> QED BY <2>0, <2>1, <1>r, NothingNew
<1>5. ASSUME NEW p \in Processes, Mount(p) PROVE ReachInv'
  <2>0. UNCHANGED <<conn, reached>> /\ p \in AboutToMount
    BY <1>5 DEF Mount, AboutToMount
  <2>1. CASE /\ at' = [at EXCEPT ![p] = "verify"]
             /\ excused' = excused \cup
                  {q \in AtWork : p \in rivals[q] /\ ContainerOf[p] # ContainerOf[q]}
    <3>1. AtWork' = AtWork
      <4>1. at[p] = "mount"
        BY <1>5 DEF Mount
      <4> QED BY <2>1, <4>1 DEF AtWork, TypeOK
    <3>2. AtWork \subseteq excused'
      BY <2>0, <2>1 DEF CheckedInv
    <3> QED BY <2>0, <3>1, <3>2, <1>r DEF CheckedInv
  <2>2. CASE Leave(p, "idle") /\ UNCHANGED <<stack, excused>>
    <3>1. /\ AboutToMount' \subseteq AboutToMount /\ (AtWork \ excused)' \subseteq AtWork \ excused
          /\ \A q \in AtWork : rivals'[q] = rivals[q]
      BY <1>5, <2>2 DEF Mount, Leave, AboutToMount, AtWork, TypeOK
    <3> QED BY <2>0, <2>2, <3>1, <1>r, NothingNew
  <2> QED BY <1>5, <2>1, <2>2 DEF Mount
<1>6. ASSUME NEW p \in Processes, Verify(p) PROVE ReachInv'
  <2>0. UNCHANGED <<stack, conn, excused, reached>> /\ at[p] = "verify"
    BY <1>6 DEF Verify
  <2>1. CASE StateMatches(p) /\ Leave(p, "use")
    BY <2>0, <2>1, <1>r, CheckSucceeds
  <2>2. CASE Leave(p, "idle")
    <3>1. /\ AboutToMount' \subseteq AboutToMount /\ (AtWork \ excused)' \subseteq AtWork \ excused
          /\ \A q \in AtWork : rivals'[q] = rivals[q]
      BY <2>0, <2>2 DEF Leave, AboutToMount, AtWork, TypeOK
    <3> QED BY <2>0, <3>1, <1>r, NothingNew
  <2> QED BY <1>6, <2>1, <2>2 DEF Verify
<1>7. ASSUME NEW p \in Processes, Use(p) PROVE ReachInv'
  <2>1. UNCHANGED <<stack, conn>> /\ at' = [at EXCEPT ![p] = "idle"] /\ p \in AtWork
        /\ excused' = excused \ {p} /\ rivals' = [rivals EXCEPT ![p] = {}]
    BY <1>7 DEF Use, AtWork
  <2>2. /\ AboutToMount' \subseteq AboutToMount /\ (AtWork \ excused)' \subseteq AtWork \ excused
        /\ \A q \in AtWork' : rivals'[q] = rivals[q]
    BY <2>1 DEF AboutToMount, AtWork, TypeOK
  <2>3. CheckedInv'
    BY <2>1, <2>2, NothingNew
  <2>4. ASSUME p \notin excused PROVE stack # <<>> /\ Last(stack).share = conn[p]
    <3>1. StateMatches(p)
      BY <2>1, <2>4 DEF CheckedInv
    <3>2. Len(stack) = 1 /\ stack[1].share = conn[p] /\ stack \in Seq(Mounts)
      BY <3>1 DEF StateMatches, TypeOK
    <3>3. stack # <<>>
      <4>1. Len(<<>>) # 1
        OBVIOUS
      <4> QED BY <3>2, <4>1, Zenon
    <3>4. Last(stack) = stack[1]
      BY <3>2 DEF Last
    <3> QED BY <3>2, <3>3, <3>4
  <2> DEFINE got == IF stack = <<>> THEN None ELSE Last(stack).share
             held == p \in excused
  <2>5. reached' = {[asked |-> conn[p], got |-> got, excused |-> held]}
    BY <1>7 DEF Use
  <2>6. conn[p] = got \/ held
    BY <2>4
  <2> HIDE DEF got, held
  <2>7. OperationsReachTheirShare'
    BY <2>5, <2>6 DEF OperationsReachTheirShare
  <2> QED BY <2>3, <2>7
<1>8. ASSUME NEW p \in Processes, LateMount(p) PROVE ReachInv'
  <2>1. UNCHANGED <<at, conn, reached, rivals>>
    BY <1>8 DEF LateMount
  <2>2. CASE excused' = excused \cup AtWork
    BY <2>1, <2>2, <1>r, AllExcused
  <2>3. CASE UNCHANGED <<stack, excused>>
    <3>1. UNCHANGED <<AboutToMount, AtWork>>
      BY <2>1 DEF AboutToMount, AtWork
    <3> QED BY <2>1, <2>3, <3>1, <1>r, NothingNew
  <2> QED BY <1>8, <2>2, <2>3 DEF LateMount
<1>9. ASSUME NEW s \in Shares, Edit(s) PROVE ReachInv'
  <2>1. UNCHANGED <<AboutToMount, AtWork, stack, conn, checks>>
    BY <1>9 DEF Edit, AboutToMount, AtWork
  <2> QED BY <2>1, <1>r, NothingNew DEF checks
<1>10. ASSUME NEW c \in Containers, Restart(c) PROVE ReachInv'
  <2>1. UNCHANGED <<stack, conn, reached>>
    BY <1>10 DEF Restart
  <2>2. /\ at' = [p \in Processes |-> IF ContainerOf[p] = c THEN "idle" ELSE at[p]]
        /\ rivals' = [p \in Processes |-> IF ContainerOf[p] = c THEN {} ELSE rivals[p]]
        /\ excused' = excused \ {p \in Processes : ContainerOf[p] = c}
    BY <1>10 DEF Restart
  <2>3. /\ AboutToMount' \subseteq AboutToMount /\ (AtWork \ excused)' \subseteq AtWork \ excused
        /\ \A q \in AtWork' : rivals'[q] = rivals[q]
    BY <2>2 DEF AboutToMount, AtWork, TypeOK
  <2> QED BY <2>1, <2>3, <1>r, NothingNew
<1>11. ASSUME NEW p \in Processes, Kill(p) PROVE ReachInv'
  <2>1. UNCHANGED <<stack, conn, reached>> /\ at' = [at EXCEPT ![p] = "idle"]
        /\ excused' = excused \ {p} /\ rivals' = [rivals EXCEPT ![p] = {}]
    BY <1>11 DEF Kill
  <2>2. /\ AboutToMount' \subseteq AboutToMount /\ (AtWork \ excused)' \subseteq AtWork \ excused
        /\ \A q \in AtWork' : rivals'[q] = rivals[q]
    BY <2>1 DEF AboutToMount, AtWork, TypeOK
  <2> QED BY <2>1, <2>2, <1>r, NothingNew
<1>12. CASE Umount
  BY <1>12, <1>r, AllExcused DEF Umount
<1>13. CASE UNCHANGED vars
  <2>1. UNCHANGED <<AboutToMount, AtWork, stack, conn, checks>>
    BY <1>13 DEF vars, AboutToMount, AtWork
  <2> QED BY <2>1, <1>r, NothingNew DEF checks
<1> QED BY <1>1, <1>2, <1>3, <1>4, <1>5, <1>6, <1>7, <1>8, <1>9, <1>10, <1>11, <1>12, <1>13
        DEF Next, Step

\* In any number of containers an operation works on the share it was started
\* for, unless the mount was changed after its check by an umount, by a helper
\* that had outlived its command, or by another container's process that had
\* found the mountpoint free before.
THEOREM SharesAreReached == Spec => []OperationsReachTheirShare
<1>1. Init => ReachInv
  BY DEF Init, ReachInv, CheckedInv, AtWork, OperationsReachTheirShare
<1>2. ReachInv => OperationsReachTheirShare
  BY DEF ReachInv
<1> QED BY <1>1, <1>2, TypeCorrect, ReachStep, PTL DEF Spec

=============================================================================
