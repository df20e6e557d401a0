----------------------------- MODULE KernelMount -----------------------------
(***************************************************************************)
(* Storages of kind mount (storage/mount_cifs): every operation first      *)
(* makes sure that the share is mounted at the Storage's mountpoint, under *)
(* a lock file, and then works on the directory through the local adapter, *)
(* outside the lock.                                                       *)
(*                                                                         *)
(* The mountpoint lies on a bind mount that all containers of the overlay  *)
(* propagate to each other; the lock file lies on /run/sluicery, which is  *)
(* a tmpfs of each container.  Nothing is ever unmounted by the program,   *)
(* but the operator may unmount.                                           *)
(* The kernel's mounts, findmnt and the mount helpers are modelled from    *)
(* how the code calls them: a second mount at the same place covers the    *)
(* first, unless the same container has mounted the same share there, and  *)
(* findmnt then prints a line for each.                                    *)
(***************************************************************************)
EXTENDS Naturals, Sequences, SequencesExt

CONSTANTS Processes,    \* processes that use the Storage
          Containers,
          ContainerOf,  \* ContainerOf[p]: the container p runs in
          Shares,       \* what a Storage may be connected to: protocol, host, share
          CifsShares,   \* the shares that need a credentials file
          None,
          MaxUses,      \* bound: operations
          MaxEdits,     \* bound: changes of the connection
          MaxEnds,      \* bound: deaths of processes and of containers
          MaxUmounts    \* bound: mounts the operator takes away

ASSUME SharesAssumption == CifsShares \subseteq Shares /\ None \notin Shares \cup Processes
ASSUME ContainersAssumption == ContainerOf \in [Processes -> Containers]
ASSUME BoundsAssumption == MaxUses \in Nat /\ MaxEdits \in Nat /\ MaxEnds \in Nat
                           /\ MaxUmounts \in Nat

VARIABLES storage,   \* the connection in the database
          stack,     \* the mounts at the mountpoint, the visible one last
          beneath,   \* the directory under them
          lock,      \* lock[c]: the holder of the lock file in container c
          at,        \* at[p]: where p is in its operation
          conn,      \* conn[p]: the connection p's adapter was built for
          files,     \* processes whose credentials file exists
          leftover,  \* containers where a killed process has left one
          helper,    \* helper[p]: a share a mount helper of p still works on
          reached,   \* history: what the last operation asked for and reached, excused or not
          rivals,    \* history, rivals[p]: who was about to mount when p's check succeeded
          excused,   \* history: processes whose mount others have changed since their check
          blind,     \* history: processes whose look at the mountpoint is out of date
          uses, edits, ends, umounts

counters == <<uses, edits, ends, umounts>>

checks == <<reached, rivals, excused>>

vars == <<storage, stack, beneath, lock, at, conn, files, leftover, helper, checks, blind, counters>>

\* Where a process holds the lock file.
Critical == {"state", "prepare", "credentials", "mount", "verify"}

\* A mount, with the container that made it.
Mounts == [share : Shares, container : Containers]

Init ==
    /\ storage \in Shares
    /\ stack \in {<<>>} \cup {<<m>> : m \in Mounts}
    /\ beneath \in {"absent", "empty", "filled", "symlink"}
    /\ stack # <<>> => beneath = "empty"
    /\ lock = [c \in Containers |-> None]
    /\ at = [p \in Processes |-> "idle"]
    /\ conn = [p \in Processes |-> None]
    /\ files = {}
    /\ helper = [p \in Processes |-> None]
    /\ leftover = {}
    /\ reached = {}
    /\ rivals = [p \in Processes |-> {}]
    /\ excused = {}
    /\ blind = {}
    /\ uses = 0
    /\ edits = 0
    /\ ends = 0
    /\ umounts = 0

-----------------------------------------------------------------------------
\* An adapter for the connection the database has now; the configuration is
\* complete and the overlay's privileges are there.
Open(p) ==
    /\ at[p] = "idle"
    /\ uses < MaxUses
    /\ conn' = [conn EXCEPT ![p] = storage]
    /\ at' = [at EXCEPT ![p] = "lock"]
    /\ uses' = uses + 1
    /\ UNCHANGED <<storage, stack, beneath, lock, files, leftover, helper, checks, blind>>
    /\ UNCHANGED <<edits, ends, umounts>>

\* flock of the lock file, without a timeout.
Acquire(p) ==
    /\ at[p] = "lock"
    /\ lock[ContainerOf[p]] = None
    /\ lock' = [lock EXCEPT ![ContainerOf[p]] = p]
    /\ at' = [at EXCEPT ![p] = "state"]
    /\ UNCHANGED <<storage, stack, beneath, conn, files, leftover, helper, checks, blind, counters>>

FaultyStateMatches(p) == stack # <<>>

\* _mounted_state and _state_matches: one line of findmnt, with p's share.
StateMatches(p) == Len(stack) = 1 /\ stack[1].share = conn[p]

\* Who has found the mountpoint free and may still mount.
AboutToMount == {q \in Processes : at[q] \in {"prepare", "credentials", "mount"}}

\* The end of the with block, with an error or without.
Leave(p, next) ==
    /\ at' = [at EXCEPT ![p] = next]
    /\ lock' = [lock EXCEPT ![ContainerOf[p]] = None]
    /\ rivals' = [rivals EXCEPT ![p] = IF next = "use" THEN AboutToMount ELSE {}]

\* The existing mount is used again, another one is a conflict, what findmnt
\* says of more than one is an error, and so is a findmnt that fails.
FindState(p) ==
    /\ at[p] = "state"
    /\ \/ /\ stack = <<>>
          /\ at' = [at EXCEPT ![p] = "prepare"]
          /\ UNCHANGED <<lock, rivals>>
       \/ StateMatches(p) /\ Leave(p, "use")
       \/ Leave(p, "idle")
    /\ UNCHANGED <<storage, stack, beneath, conn, files, leftover, helper>>
    /\ UNCHANGED <<reached, excused, blind, counters>>

FaultyPrepare(p) ==
    /\ at[p] = "prepare"
    /\ beneath' = IF beneath = "absent" THEN "empty" ELSE beneath
    /\ at' = [at EXCEPT ![p] = "credentials"]
    /\ blind' = blind \ {p}
    /\ UNCHANGED <<lock, storage, stack, conn, files, leftover, helper, checks, counters>>

\* The mountpoint must be a directory that is empty, or what another container
\* has mounted there in the meantime must look like one.  A helper p has left
\* behind does not look again.
Prepare(p) ==
    /\ at[p] = "prepare"
    /\ \/ /\ stack = <<>> => beneath \in {"absent", "empty"}
          /\ beneath' = IF stack = <<>> THEN "empty" ELSE beneath
          /\ at' = [at EXCEPT ![p] = "credentials"]
          /\ blind' = IF stack = <<>> /\ helper[p] = None THEN blind \ {p} ELSE blind \cup {p}
          /\ UNCHANGED <<lock, rivals>>
       \/ /\ stack = <<>> => beneath \in {"filled", "symlink"}
          /\ Leave(p, "idle")
          /\ UNCHANGED <<beneath, blind>>
    /\ UNCHANGED <<storage, stack, conn, files, leftover, helper, reached, excused, counters>>

\* mkstemp and the content; without room for it the operation ends.
WriteCredentials(p) ==
    /\ at[p] = "credentials"
    /\ \/ /\ at' = [at EXCEPT ![p] = "mount"]
          /\ files' = IF conn[p] \in CifsShares THEN files \cup {p} ELSE files
          /\ UNCHANGED <<lock, rivals>>
       \/ /\ conn[p] \in CifsShares
          /\ Leave(p, "idle")
          /\ UNCHANGED files
    /\ UNCHANGED <<storage, stack, beneath, conn, leftover, helper, reached, excused, blind, counters>>

MountOf(s, p) == [share |-> s, container |-> ContainerOf[p]]

\* The kernel refuses the same filesystem on top of itself.
MayMount(m) == stack # <<>> => Last(stack) # m

\* Who works outside the lock on the mount it has checked.
AtWork == {p \in Processes : at[p] = "use"}

\* What a mount command that fails leaves behind.
LeftBehind(p) == {helper[p], conn[p]}

\* _perform_mount: the command succeeds, fails, or is killed at its timeout,
\* which its helper may outlive; the credentials file goes in each case.
Mount(p) ==
    /\ at[p] = "mount"
    /\ \/ /\ MayMount(MountOf(conn[p], p))
          /\ stack' = Append(stack, MountOf(conn[p], p))
          /\ at' = [at EXCEPT ![p] = "verify"]
          /\ excused' = excused \cup {q \in AtWork : p \in rivals[q] /\ ContainerOf[p] # ContainerOf[q]}
          /\ UNCHANGED <<lock, helper, rivals>>
       \/ /\ Leave(p, "idle")
          /\ \E s \in LeftBehind(p) : helper' = [helper EXCEPT ![p] = s]
          /\ UNCHANGED <<stack, excused>>
    /\ files' = files \ {p}
    /\ UNCHANGED <<storage, beneath, conn, leftover, reached, blind, counters>>

\* findmnt again; it must answer, and with this share alone.
Verify(p) ==
    /\ at[p] = "verify"
    /\ \/ StateMatches(p) /\ Leave(p, "use")
       \/ Leave(p, "idle")
    /\ UNCHANGED <<storage, stack, beneath, conn, files, leftover, helper>>
    /\ UNCHANGED <<reached, excused, blind, counters>>

\* Who may mount without another look at the mountpoint.
Unlooking == {q \in Processes : at[q] \in {"credentials", "mount"} \/ helper[q] # None}

\* publish, exists, list_recursive, inspect_file, hardlink_from, move,
\* delete_file, free_space and the rest of test_connection: the local adapter,
\* on what is visible at the mountpoint.  Where nothing is mounted any more, a
\* file is written to the directory itself.
Use(p) ==
    /\ at[p] = "use"
    /\ reached' =
           {[asked |-> conn[p], got |-> IF stack = <<>> THEN None ELSE Last(stack).share,
             excused |-> p \in excused]}
    /\ at' = [at EXCEPT ![p] = "idle"]
    /\ rivals' = [rivals EXCEPT ![p] = {}]
    /\ excused' = excused \ {p}
    /\ \/ stack = <<>> /\ beneath' = "filled" /\ blind' = blind \cup Unlooking
       \/ UNCHANGED <<beneath, blind>>
    /\ UNCHANGED <<storage, stack, lock, conn, files, leftover, helper, counters>>

Step(p) ==
    \/ Acquire(p) \/ FindState(p) \/ Prepare(p) \/ WriteCredentials(p)
    \/ Mount(p) \/ Verify(p) \/ Use(p)

-----------------------------------------------------------------------------
\* A helper that was left behind mounts its share after all, or gives up.
LateMount(p) ==
    /\ helper[p] # None
    /\ \/ /\ MayMount(MountOf(helper[p], p))
          /\ stack' = Append(stack, MountOf(helper[p], p))
          /\ excused' = excused \cup AtWork
       \/ UNCHANGED <<stack, excused>>
    /\ helper' = [helper EXCEPT ![p] = None]
    /\ UNCHANGED <<storage, beneath, lock, at, conn, files, leftover, reached, rivals, blind, counters>>

\* The operator's umount, which docs/storage.md asks for after a crash: the
\* directory that comes to light need not be the one somebody has looked at.
Umount ==
    /\ umounts < MaxUmounts
    /\ stack # <<>>
    /\ stack' = Front(stack)
    /\ excused' = excused \cup AtWork
    /\ umounts' = umounts + 1
    /\ UNCHANGED <<storage, beneath, lock, at, conn, files, leftover, helper, reached, rivals, blind>>
    /\ UNCHANGED <<uses, edits, ends>>

\* The Storage is edited to another host or share.
Edit(s) ==
    /\ edits < MaxEdits
    /\ s # storage
    /\ storage' = s
    /\ edits' = edits + 1
    /\ UNCHANGED <<stack, beneath, lock, at, conn, files, leftover, helper, checks, blind>>
    /\ UNCHANGED <<uses, ends, umounts>>

\* A process of a container that lives on is killed: flock lets go, but the
\* mount command goes on and the credentials file stays.
Kill(p) ==
    /\ ends < MaxEnds
    /\ at[p] # "idle"
    /\ at' = [at EXCEPT ![p] = "idle"]
    /\ lock' = [c \in Containers |-> IF lock[c] = p THEN None ELSE lock[c]]
    /\ helper' = [helper EXCEPT ![p] = IF at[p] = "mount" THEN conn[p] ELSE @]
    /\ files' = files \ {p}
    /\ leftover' = IF p \in files THEN leftover \cup {ContainerOf[p]} ELSE leftover
    /\ rivals' = [rivals EXCEPT ![p] = {}]
    /\ excused' = excused \ {p}
    /\ ends' = ends + 1
    /\ UNCHANGED <<storage, stack, beneath, conn, reached, blind, uses, edits, umounts>>

\* A container ends: its processes, helpers, lock files and tmpfs go, its
\* mounts stay.
Restart(c) ==
    /\ ends < MaxEnds
    /\ LET mine == {p \in Processes : ContainerOf[p] = c}
       IN  /\ at' = [p \in Processes |-> IF p \in mine THEN "idle" ELSE at[p]]
           /\ helper' = [p \in Processes |-> IF p \in mine THEN None ELSE helper[p]]
           /\ rivals' = [p \in Processes |-> IF p \in mine THEN {} ELSE rivals[p]]
           /\ files' = files \ mine
           /\ excused' = excused \ mine
    /\ leftover' = leftover \ {c}
    /\ lock' = [lock EXCEPT ![c] = None]
    /\ ends' = ends + 1
    /\ UNCHANGED <<storage, stack, beneath, conn, reached, blind, uses, edits, umounts>>

Next ==
    \/ \E p \in Processes : Open(p) \/ Step(p) \/ LateMount(p) \/ Kill(p)
    \/ \E s \in Shares : Edit(s)
    \/ \E c \in Containers : Restart(c)
    \/ Umount

Spec == Init /\ [][Next]_vars

-----------------------------------------------------------------------------
TypeOK ==
    /\ storage \in Shares
    /\ stack \in Seq(Mounts)
    /\ beneath \in {"absent", "empty", "filled", "symlink"}
    /\ lock \in [Containers -> Processes \cup {None}]
    /\ at \in [Processes -> {"idle", "lock", "use"} \cup Critical]
    /\ conn \in [Processes -> Shares \cup {None}]
    /\ \A p \in Processes : at[p] # "idle" => conn[p] \in Shares
    /\ files \subseteq {p \in Processes : at[p] = "mount" /\ conn[p] \in CifsShares}
    /\ leftover \subseteq Containers
    /\ helper \in [Processes -> Shares \cup {None}]
    /\ reached \subseteq [asked : Shares, got : Shares \cup {None}, excused : BOOLEAN]
    /\ rivals \in [Processes -> SUBSET Processes]
    /\ excused \subseteq AtWork
    /\ blind \subseteq Processes
    /\ uses \in 0..MaxUses
    /\ \A p \in Processes : lock[ContainerOf[p]] = p <=> at[p] \in Critical

\* An operation works on the share its Storage named when it was started,
\* although the lock is released before it and each container has a lock of
\* its own, unless the mount was changed after its check: by the operator's
\* umount, by a helper that outlived its command, or by a process of the other
\* container that had found the mountpoint free before.  Nobody of the same
\* container, no later check and no edit of the Storage has it work on another
\* share or on the directory under the mounts.
OperationsReachTheirShare == \A r \in reached : r.asked = r.got \/ r.excused

\* Who has made the mount m, of its operation's share or of its helper's.
MayHaveMade(m, p) == m \in {MountOf(conn[p], p), MountOf(helper[p], p)}

\* What lies under the mountpoint is covered only when it is an empty directory,
\* unless it has been filled between the look at it and the mount: by an
\* operation that went on after an umount.
NothingIsCovered ==
    [][stack = <<>> /\ stack' # <<>> =>
          \/ beneath = "empty"
          \/ \E p \in blind : MayHaveMade(stack'[1], p)]_vars

=============================================================================
