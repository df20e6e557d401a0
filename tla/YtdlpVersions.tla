---------------------------- MODULE YtdlpVersions ----------------------------
(***************************************************************************)
(* The installed versions of yt-dlp (downloader/version.py) and the update *)
(* that tests a new one and goes back when it fails                        *)
(* (core/ytdlp_update.py).                                                 *)
(*                                                                         *)
(* A version is a directory and a row of the database; the link "current"  *)
(* names the one that workers run.  install, use, remove and prune hold    *)
(* the file lock .lock, one after the other; an update or a rollback holds *)
(* .update-lock from its start to its end and takes .lock for each of the  *)
(* commands it is made of, so that an operator's commands come in between. *)
(* Every step may be the last one of its process.                          *)
(***************************************************************************)
EXTENDS Naturals, FiniteSets

CONSTANTS
    Versions,      \* releases of yt-dlp
    NoVersion,
    Keep,          \* ytdlp.keep_versions
    MaxCommands,   \* bound: commands given
    MaxCrashes,    \* bound: processes that die
    MaxDecays      \* bound: directories that are damaged

ASSUME VersionsAssumption ==
    /\ NoVersion \notin Versions \cup {"operator", "update"}
    /\ Keep \in Nat /\ MaxCommands \in Nat /\ MaxCrashes \in Nat /\ MaxDecays \in Nat

VARIABLES
    dir,        \* of a version: "absent", "broken" or "ready"
    current,    \* the version that the link names, or NoVersion
    status,     \* of a version's row: "none", "installed", "active", "removed"
    installed,  \* place of a version by installed_at, 1 the newest, 0 never installed
    retired,    \* its place by deactivated_at, 0 never deactivated
    held,       \* the version whose row the update's Session holds as active
    lock,       \* who holds .lock
    op,         \* the command of each process and the step it is at
    upd,        \* the update or rollback that holds .update-lock
    prior,      \* history: the version that the link named before this one
    torn,       \* history: the link was switched and its row was not made active
    count       \* the bounds

ytdlpVars ==
    <<dir, current, status, installed, retired, held, lock, op, upd, prior, torn, count>>

Who == {"operator", "update"}

NoOp == [step |-> "idle", v |-> NoVersion, force |-> FALSE, activate |-> FALSE,
         doomed |-> {}, from |-> NoVersion]
Do(step, v) == [NoOp EXCEPT !.step = step, !.v = v]

Idle == [phase |-> "idle", prev |-> NoVersion, cand |-> NoVersion]

\* The phases in which an update waits for one of its commands.
UpdatePhases == {"install", "use", "prune", "back"}

-------------------------------------------------------------------------------
(***************************************************************************)
(* What the commands read.                                                 *)
(***************************************************************************)
\* get_status: ready.
CurrentIsReady == current # NoVersion /\ dir[current] = "ready"

HasRow(v) == status[v] \in {"installed", "active"}

\* list_installed.
Listed == {v \in Versions : HasRow(v)}

\* The version with the latest deactivated_at, except one.
LatestRetired(except) ==
    LET left == {v \in Listed \ {except} : retired[v] # 0}
    IN  IF left = {} THEN NoVersion
        ELSE CHOOSE v \in left : \A u \in left : retired[v] <= retired[u]

\* A version gets the current time; those that were newer move back by one.
Newest(place, v) ==
    [u \in Versions |-> IF u = v THEN 1
                        ELSE IF place[u] # 0 /\ (place[v] = 0 \/ place[u] < place[v])
                        THEN place[u] + 1 ELSE place[u]]

\* A bug to find: only the current version is kept for sure.
FaultyProtected == {current} \ {NoVersion}

Protected == {current, LatestRetired(NoVersion)} \ {NoVersion}

\* prune_old_versions: beyond the newest ones and the protected ones.
Doomed ==
    LET n == IF Keep >= Cardinality(Protected) THEN Keep ELSE Cardinality(Protected)
        newer(v) == {u \in Listed : installed[u] < installed[v]}
        kept == {v \in Listed : Cardinality(newer(v)) < n} \cup Protected
    IN  IF Cardinality(Listed) <= Keep THEN {} ELSE Listed \ kept

-------------------------------------------------------------------------------
(***************************************************************************)
(* The end of a command.  An update goes on with the next one, or with a   *)
(* test; an exception ends it.                                             *)
(***************************************************************************)
\* A bug to find: a failing command leaves the update waiting.
FaultyRelease(w, ok, v) ==
    /\ lock' = NoVersion
    /\ op' = [op EXCEPT ![w] = IF w = "update" /\ ok /\ upd.phase = "install" /\ upd.prev # v
                               THEN Do("use", v) ELSE NoOp]
    /\ upd' = CASE w = "operator" \/ ~ok -> upd
                [] w = "update" /\ ok /\ upd.phase = "install" /\ upd.prev # v
                     -> [upd EXCEPT !.phase = "use", !.cand = v]
                [] w = "update" /\ ok /\ upd.phase = "install" /\ upd.prev = v
                     -> [upd EXCEPT !.phase = "smoke", !.cand = v]
                [] w = "update" /\ ok /\ upd.phase = "use" -> [upd EXCEPT !.phase = "smoke"]
                [] OTHER -> Idle

Release(w, ok, v) ==
    LET uses == w = "update" /\ ok /\ upd.phase = "install" /\ upd.prev # v
        tests == w = "update" /\ ok /\ (\/ upd.phase = "install" /\ upd.prev = v
                                        \/ upd.phase = "use")
    IN  /\ lock' = NoVersion
        /\ op' = [op EXCEPT ![w] = IF uses THEN Do("use", v) ELSE NoOp]
        /\ upd' = CASE uses -> [upd EXCEPT !.phase = "use", !.cand = v]
                    [] tests -> [upd EXCEPT !.phase = "smoke", !.cand = v]
                    [] w = "update" /\ ~uses /\ ~tests -> Idle
                    [] OTHER -> upd

ToStep(w, step) == op' = [op EXCEPT ![w].step = step] /\ UNCHANGED <<lock, upd>>

Tree == <<dir, current>>
ReleaseRows == <<status, installed, retired, held>>
History == <<prior, torn>>

-------------------------------------------------------------------------------
(***************************************************************************)
(* install.                                                                *)
(***************************************************************************)
\* The wanted version is there with its row and can be run.
InstallKnown(w) ==
    LET v == op[w].v
    IN  op[w].step = "install" /\ v # NoVersion /\ ~op[w].force /\ dir[v] = "ready" /\ HasRow(v)

Install(w) ==
    /\ op[w].step = "install"
    /\ \/ InstallKnown(w) /\ CurrentIsReady /\ Release(w, TRUE, op[w].v)
       \/ InstallKnown(w) /\ ~CurrentIsReady /\ ToStep(w, "switch")
       \/ /\ ~InstallKnown(w)
          /\ op' = [op EXCEPT ![w].step = "build", ![w].activate = ~CurrentIsReady]
          /\ UNCHANGED <<lock, upd>>
    /\ UNCHANGED <<Tree, ReleaseRows, History>>

\* _create_venv, pip and the probe, in a directory of their own.  Without a
\* version pip chooses one.
Build(w) ==
    /\ op[w].step = "build"
    /\ \/ Release(w, FALSE, op[w].v)
       \/ \E v \in IF op[w].v = NoVersion THEN Versions ELSE {op[w].v} :
            /\ op' = [op EXCEPT ![w].v = v,
                        ![w].step = IF dir[v] = "ready" /\ ~op[w].force THEN "record"
                                    ELSE IF dir[v] # "absent" THEN "clear" ELSE "rename"]
            /\ UNCHANGED <<lock, upd>>
    /\ UNCHANGED <<Tree, ReleaseRows, History>>

\* rmtree of the directory to be replaced.
Clear(w) ==
    /\ op[w].step = "clear"
    /\ dir' = [dir EXCEPT ![op[w].v] = "absent"]
    /\ ToStep(w, "rename")
    /\ UNCHANGED <<current, ReleaseRows, History>>

\* The new directory has its name; its scripts still name the old one.
Rename(w) ==
    /\ op[w].step = "rename"
    /\ dir' = [dir EXCEPT ![op[w].v] = "broken"]
    /\ ToStep(w, "relocate")
    /\ UNCHANGED <<current, ReleaseRows, History>>

\* _relocate_shebangs.
Relocate(w) ==
    /\ op[w].step = "relocate"
    /\ dir' = [dir EXCEPT ![op[w].v] = "ready"]
    /\ ToStep(w, "record")
    /\ UNCHANGED <<current, ReleaseRows, History>>

\* _record_install.  The update's Session keeps the row as it is now: a later
\* SELECT does not load it again.
Record(w) ==
    LET v == op[w].v
    IN  /\ op[w].step = "record"
        /\ status' = [status EXCEPT ![v] = IF HasRow(v) THEN @ ELSE "installed"]
        /\ installed' = IF HasRow(v) THEN installed ELSE Newest(installed, v)
        /\ held' = IF w = "operator" THEN held ELSE IF status[v] = "active" THEN v ELSE NoVersion
        /\ IF op[w].activate THEN ToStep(w, "switch") ELSE Release(w, TRUE, v)
        /\ UNCHANGED <<Tree, retired, History>>

-------------------------------------------------------------------------------
(***************************************************************************)
(* use, and _activate: the link, then the rows.                            *)
(***************************************************************************)
\* install and use of an update share a Session, so that use finds the row of
\* the new version as install left it.
SharesSession(w) == w = "update" /\ upd.phase = "use"

Use(w) ==
    /\ op[w].step = "use"
    /\ IF dir[op[w].v] = "ready" /\ (HasRow(op[w].v) \/ SharesSession(w))
       THEN ToStep(w, "switch")
       ELSE Release(w, FALSE, op[w].v)
    /\ UNCHANGED <<Tree, ReleaseRows, History>>

Switch(w) ==
    /\ op[w].step = "switch"
    /\ current' = op[w].v
    /\ op' = [op EXCEPT ![w].step = "commit", ![w].from = current]
    /\ UNCHANGED <<dir, ReleaseRows, History, lock, upd>>

\* A bug to find: the row that was active stays so.
FaultyCommit(w) ==
    /\ op[w].step = "commit"
    /\ status' = [status EXCEPT ![op[w].v] = "active"]
    /\ torn' = FALSE
    /\ Release(w, TRUE, op[w].v)
    /\ UNCHANGED <<Tree, installed, retired, prior, held>>

\* A row that the Session already holds as active gets no UPDATE of its status.
Commit(w) ==
    LET v == op[w].v
        unwritten == SharesSession(w) /\ held = v
        old == {u \in Versions \ {v} : status[u] = "active"}
    IN  /\ op[w].step = "commit"
        /\ status' = [u \in Versions |-> IF u = v /\ ~unwritten THEN "active"
                                         ELSE IF u \in old THEN "installed" ELSE status[u]]
        /\ retired' = IF old = {} THEN retired ELSE Newest(retired, CHOOSE u \in old : TRUE)
        /\ prior' = IF torn THEN NoVersion
                    ELSE IF op[w].from \in {v, NoVersion} THEN prior ELSE op[w].from
        /\ torn' = (unwritten /\ status[v] # "active")
        /\ held' = IF w = "update" THEN v ELSE held
        /\ Release(w, TRUE, v)
        /\ UNCHANGED <<Tree, installed>>

-------------------------------------------------------------------------------
(***************************************************************************)
(* remove and prune_old_versions.                                          *)
(***************************************************************************)
Removable(v) == current # v /\ dir[v] # "absent"

RemoveVersion(w) ==
    /\ op[w].step = "remove"
    /\ IF Removable(op[w].v) THEN ToStep(w, "delete") ELSE Release(w, FALSE, op[w].v)
    /\ UNCHANGED <<Tree, ReleaseRows, History>>

Delete(w) ==
    /\ op[w].step = "delete"
    /\ dir' = [dir EXCEPT ![op[w].v] = "absent"]
    /\ ToStep(w, "removed")
    /\ UNCHANGED <<current, ReleaseRows, History>>

Removed(w) ==
    /\ op[w].step = "removed"
    /\ status' = [status EXCEPT ![op[w].v] = IF @ = "none" THEN @ ELSE "removed"]
    /\ Release(w, TRUE, op[w].v)
    /\ UNCHANGED <<Tree, installed, retired, held, History>>

Prune(w) ==
    /\ op[w].step = "prune"
    /\ IF Doomed = {}
       THEN Release(w, TRUE, NoVersion)
       ELSE /\ op' = [op EXCEPT ![w].step = "pruning", ![w].doomed = Doomed]
            /\ UNCHANGED <<lock, upd>>
    /\ UNCHANGED <<Tree, ReleaseRows, History>>

\* One directory after the other, in any order.
PruneOne(w) ==
    /\ op[w].step = "pruning"
    /\ \E v \in op[w].doomed : dir[v] # "absent" /\ dir' = [dir EXCEPT ![v] = "absent"]
    /\ UNCHANGED <<current, ReleaseRows, History, lock, op, upd>>

PruneCommit(w) ==
    /\ op[w].step = "pruning"
    /\ \A v \in op[w].doomed : dir[v] = "absent"
    /\ status' = [v \in Versions |-> IF v \in op[w].doomed THEN "removed" ELSE status[v]]
    /\ Release(w, TRUE, NoVersion)
    /\ UNCHANGED <<Tree, installed, retired, held, History>>

\* flock waits.
Free == lock = NoVersion
Take(w) ==
    /\ Free /\ op[w].step # "idle"
    /\ lock' = w
    /\ UNCHANGED <<Tree, ReleaseRows, History, op, upd, count>>

\* A step of the command that holds the lock.
Work(w) ==
    \/ Take(w)
    \/ /\ lock = w
       /\ \/ Install(w) \/ Build(w) \/ Clear(w) \/ Rename(w) \/ Relocate(w) \/ Record(w)
          \/ Use(w) \/ Switch(w) \/ Commit(w)
          \/ RemoveVersion(w) \/ Delete(w) \/ Removed(w)
          \/ Prune(w) \/ PruneOne(w) \/ PruneCommit(w)
       /\ UNCHANGED count

-------------------------------------------------------------------------------
(***************************************************************************)
(* Commands, updates and rollbacks.                                        *)
(***************************************************************************)
Counted(what, max) == count[what] < max /\ count' = [count EXCEPT ![what] = @ + 1]

\* sluicery ytdlp install, use and remove.
Command ==
    /\ Counted("commands", MaxCommands)
    /\ op["operator"].step = "idle"
    /\ \/ \E step \in {"use", "remove"}, v \in Versions :
            op' = [op EXCEPT !["operator"] = Do(step, v)]
       \/ \E v \in Versions \cup {NoVersion}, force \in BOOLEAN :
            op' = [op EXCEPT !["operator"] = [Do("install", v) EXCEPT !.force = force]]
    /\ UNCHANGED <<Tree, ReleaseRows, History, lock, upd>>

\* update_ytdlp: the link is read before the first command.
UpdateStart ==
    /\ Counted("commands", MaxCommands)
    /\ upd.phase = "idle"
    /\ upd' = [Idle EXCEPT !.phase = "install", !.prev = current]
    /\ op' = [op EXCEPT !["update"] = Do("install", NoVersion)]
    /\ UNCHANGED <<Tree, ReleaseRows, History, lock>>

\* rollback_ytdlp: the link is read, then the rows, without .lock.
RollbackStart ==
    /\ Counted("commands", MaxCommands)
    /\ upd.phase = "idle"
    /\ upd' = [Idle EXCEPT !.phase = "choose", !.prev = current]
    /\ UNCHANGED <<Tree, ReleaseRows, History, lock, op>>

\* _latest_rollback_version.
Choose ==
    /\ upd.phase = "choose"
    /\ upd' = LET back == LatestRetired(upd.prev)
              IN  IF back = NoVersion THEN Idle
                  ELSE [Idle EXCEPT !.phase = "resmoke", !.prev = back]
    /\ UNCHANGED <<Tree, ReleaseRows, History, lock, op, count>>

\* run_smoketest runs the version's own program, without the lock.
TestMayPass(v) == dir[v] = "ready"

\* The new version is tested while it is current.
Smoke ==
    LET back == IF upd.prev \notin {NoVersion, upd.cand} THEN upd.prev ELSE LatestRetired(upd.cand)
    IN  /\ upd.phase = "smoke"
        /\ \/ /\ TestMayPass(upd.cand)
              /\ upd' = [upd EXCEPT !.phase = "prune"]
              /\ op' = [op EXCEPT !["update"] = Do("prune", NoVersion)]
           \/ /\ upd' = IF back = NoVersion THEN Idle
                        ELSE [upd EXCEPT !.phase = "resmoke", !.prev = back]
              /\ UNCHANGED op
        /\ UNCHANGED <<Tree, ReleaseRows, History, lock, count>>

\* The version to go back to is tested before it is used.
Resmoke ==
    /\ upd.phase = "resmoke"
    /\ \/ /\ TestMayPass(upd.prev)
          /\ upd' = [upd EXCEPT !.phase = "back"]
          /\ op' = [op EXCEPT !["update"] = Do("use", upd.prev)]
       \/ upd' = Idle /\ UNCHANGED op
    /\ UNCHANGED <<Tree, ReleaseRows, History, lock, count>>

UpdateStep == Choose \/ Smoke \/ Resmoke

\* A process dies: its locks are free.
Crash(w) ==
    /\ Counted("crashes", MaxCrashes)
    /\ op[w].step # "idle" \/ (w = "update" /\ upd.phase # "idle")
    /\ lock' = IF lock = w THEN NoVersion ELSE lock
    /\ op' = [op EXCEPT ![w] = NoOp]
    /\ upd' = IF w = "update" THEN Idle ELSE upd
    /\ torn' = (torn \/ (op[w].step = "commit" /\ op[w].from # op[w].v))
    /\ UNCHANGED <<Tree, ReleaseRows, prior>>

\* A directory is damaged while no command is at work on it.
Decay ==
    /\ Counted("decays", MaxDecays)
    /\ Free
    /\ \E v \in Versions : dir[v] = "ready" /\ dir' = [dir EXCEPT ![v] = "broken"]
    /\ UNCHANGED <<current, ReleaseRows, History, lock, op, upd>>

YtdlpInit ==
    /\ dir = [v \in Versions |-> "absent"]
    /\ current = NoVersion
    /\ status = [v \in Versions |-> "none"]
    /\ installed = [v \in Versions |-> 0] /\ retired = [v \in Versions |-> 0]
    /\ held = NoVersion /\ lock = NoVersion
    /\ op = [w \in Who |-> NoOp]
    /\ upd = Idle
    /\ prior = NoVersion /\ torn = FALSE
    /\ count = [commands |-> 0, crashes |-> 0, decays |-> 0]

YtdlpNext ==
    \/ Command
    \/ UpdateStart
    \/ RollbackStart
    \/ \E w \in Who : Work(w)
    \/ UpdateStep
    \/ \E w \in Who : Crash(w)
    \/ Decay

YtdlpSpec ==
    /\ YtdlpInit /\ [][YtdlpNext]_ytdlpVars
    /\ \A w \in Who : WF_ytdlpVars(Work(w))
    /\ WF_ytdlpVars(UpdateStep)

-------------------------------------------------------------------------------
(***************************************************************************)
(* Properties.                                                             *)
(***************************************************************************)
YtdlpTypeOK ==
    /\ dir \in [Versions -> {"absent", "broken", "ready"}]
    /\ current \in Versions \cup {NoVersion}
    /\ status \in [Versions -> {"none", "installed", "active", "removed"}]
    /\ {installed, retired} \subseteq [Versions -> Nat]
    /\ lock \in Who \cup {NoVersion} /\ held \in Versions \cup {NoVersion}
    /\ upd.phase \in UpdatePhases \cup {"idle", "choose", "smoke", "resmoke"}

\* _activate: at no time are two rows active, whoever died or held an old row.
\* Between the commands the active row is that of the linked version; two
\* things suspend this until the next activation, a death between link and rows
\* and the use of an update that still holds its version's row as active
\* although an operator has switched away from it.
ActiveIsCurrent ==
    LET active == {v \in Versions : status[v] = "active"}
    IN  /\ \A u, v \in active : u = v
        /\ Free /\ ~torn => active = {current} \ {NoVersion}

\* prune_old_versions: the version that the workers ran before the current
\* one is not pruned, whatever was installed, removed and installed again in
\* between, unless a death or an update's old row separated its link from its
\* rows.
PriorSurvivesPrune ==
    [][\A v \in Versions :
         v = prior /\ HasRow(v) /\ ~torn /\ op["update"].step = "pruning" =>
           dir'[v] = dir[v]]_ytdlpVars

\* update_ytdlp, rollback_ytdlp: an update ends, and frees .update-lock,
\* whatever operators take away from it.
UpdateEnds == upd.phase # "idle" ~> upd.phase = "idle"

=============================================================================
