----------------------------- MODULE Activation -----------------------------
(***************************************************************************)
(* cli/activation_transaction.c on a POSIX system: how an installation     *)
(* replaces or removes the binary at a path so that the old one can be had *)
(* back, and what is left when a call fails or the machine stops.          *)
(*                                                                         *)
(* A directory binds the names of a transaction to inodes.  An action is   *)
(* one change or sync of the directory together with the examination right *)
(* before it; an examination that another system call separates from what  *)
(* it licenses is an action of its own.  The caller may make any call of   *)
(* the interface that the state of the transaction allows.                 *)
(*                                                                         *)
(* Left out: the bytes of a file, its mode and its owner, memory           *)
(* exhaustion, and a preparation that fails before it creates anything.    *)
(***************************************************************************)
EXTENDS Naturals, FiniteSets

CONSTANT Budgets    \* bound: what may happen, one record per kind of run

Allowed == [action : {"replace", "remove"}, existed : BOOLEAN,
            noreplace : BOOLEAN,    \* the file system can rename without replacing
            faults : Nat,           \* system calls that fail
            rivals : Nat,           \* other programs that touch the target
            crashes : Nat]

ASSUME BudgetsAssumption == Budgets \subseteq Allowed

VARIABLES
    dir,        \* [Name -> Inode]: the directory as the kernel shows it
    disk,       \* the directories a power loss may leave behind
    tx,         \* the transaction
    pc,         \* the next step of the call in progress
    call,       \* the call in progress, and what it answers when it restored the target
    answer,     \* what the last call answered
    meddled,    \* history: another program has touched the target
    budget      \* bound: what may still happen

vars == <<dir, disk, tx, pc, call, answer, meddled, budget>>

Name == {"target", "backup", "stage"}
Inode == {"none", "old", "reserve", "new", "rival"}
Directory == [Name -> Inode]

Step == {"reserve", "sync reserve", "stage", "sync stage", "unreserve", "link", "pair",
         "sync pair", "swap", "unlink pair", "retire", "publish", "link stage", "check link",
         "unlink stage", "published", "sync commit", "validate", "examine", "restore",
         "withdraw", "check withdrawn", "sync rollback", "sync finalize", "discard stage",
         "discard backup", "sync discard"}
Op == {"prepare", "commit", "rollback", "finalize", "close"}
Status == {"none", "ok", "io", "rejected", "rollback failed"}
Transaction == [state : {"none", "staged", "committed", "recovery", "rolled back",
                         "finalized", "gone"},
                stagedExists : BOOLEAN, backupExists : BOOLEAN, backupHasTarget : BOOLEAN,
                backupId : {"reserve", "old"}, clean : BOOLEAN]

TypeOK ==
    /\ dir \in Directory /\ disk \subseteq Directory /\ dir \in disk
    /\ tx \in Transaction
    /\ pc \in Step \cup {"idle", "dead"}
    /\ call \in [op : Op, restored : Status] /\ answer \in Status
    /\ meddled \in BOOLEAN /\ budget \in Allowed

NoTransaction == [state |-> "none", stagedExists |-> FALSE, backupExists |-> FALSE,
                  backupHasTarget |-> FALSE, backupId |-> "reserve", clean |-> TRUE]

Init ==
    /\ budget \in Budgets
    /\ dir = [n \in Name |-> IF n = "target" /\ budget.existed THEN "old" ELSE "none"]
    /\ disk = {dir} /\ tx = NoTransaction /\ pc = "idle"
    /\ call = [op |-> "close", restored |-> "ok"] /\ answer = "none" /\ meddled = FALSE

----------------------------------------------------------------------------
(* The file system.  Changes of a directory reach the disk in their order, *)
(* at the latest when it is synced.                                        *)

Write(changed) == dir' = changed /\ disk' = disk \cup {changed}
Sync == dir' = dir /\ disk' = {dir}
Same == UNCHANGED <<dir, disk>>

Links(i) == Cardinality({n \in Name : dir[n] = i})
Bound(n) == dir[n] # "none"

\* activation_entry_snapshot: no file at all, or one with a single link
Legible(n) == Bound(n) => Links(dir[n]) = 1
Matches(n, i) == Legible(n) /\ dir[n] \in {"none", i}
Has(n, i) == Matches(n, i) /\ Bound(n)
Linked(m, n, i) == dir[m] = i /\ dir[n] = i /\ Links(i) = 2

\* A call succeeds, or fails for its reasons or for none.
Holds(good) == good /\ UNCHANGED budget
Fails(good) ==
    IF good THEN budget.faults > 0 /\ budget' = [budget EXCEPT !.faults = @ - 1]
    ELSE UNCHANGED budget

----------------------------------------------------------------------------
(* Control.                                                                *)

At(step) == pc = step /\ UNCHANGED meddled
Then(step) == pc' = step /\ UNCHANGED <<call, answer>>
Return(status) == pc' = "idle" /\ answer' = status /\ UNCHANGED call

Replaces == budget.action = "replace"
Existed == budget.existed

\* activation_rollback_internal, from a call that answers restored if it succeeds
RollBack(op, restored) ==
    /\ pc' = "examine" /\ call' = [op |-> op, restored |-> restored]
    /\ UNCHANGED answer
Recover == tx' = [tx EXCEPT !.state = "recovery"]

----------------------------------------------------------------------------
(* Preparation: a private file reserves the name of the backup, another    *)
(* one holds the candidate.                                                *)

Prepare ==
    /\ At("idle") /\ tx.state = "none"
    /\ tx' = [tx EXCEPT !.state = "staged"]
    /\ call' = [op |-> "prepare", restored |-> "io"]
    /\ IF Existed THEN pc' = "reserve" /\ UNCHANGED answer
       ELSE IF Replaces THEN pc' = "stage" /\ UNCHANGED answer
       ELSE pc' = "idle" /\ answer' = "ok"
    /\ UNCHANGED budget /\ Same

Reserve ==
    /\ At("reserve")
    /\ \/ /\ Holds(TRUE) /\ Write([dir EXCEPT !["backup"] = "reserve"])
          /\ tx' = [tx EXCEPT !.backupExists = TRUE] /\ Then("sync reserve")
       \/ Fails(TRUE) /\ tx' = [tx EXCEPT !.state = "gone"] /\ Return("io") /\ Same

SyncReserve ==
    /\ At("sync reserve") /\ UNCHANGED tx
    /\ \/ Holds(TRUE) /\ Sync /\ IF Replaces THEN Then("stage") ELSE Return("ok")
       \/ Fails(TRUE) /\ Then("discard stage") /\ Same

Stage ==
    /\ At("stage")
    /\ \/ /\ Holds(TRUE) /\ Write([dir EXCEPT !["stage"] = "new"])
          /\ tx' = [tx EXCEPT !.stagedExists = TRUE] /\ Then("sync stage")
       \/ Fails(TRUE) /\ Then("discard stage") /\ Same /\ UNCHANGED tx

SyncStage ==
    /\ At("sync stage") /\ UNCHANGED tx
    /\ \/ Holds(TRUE) /\ Sync /\ Return("ok")
       \/ Fails(TRUE) /\ Then("discard stage") /\ Same

----------------------------------------------------------------------------
(* Commit.                                                                 *)

\* activation_target_still_original, and the candidate is still the one that was staged
StillOriginal ==
    /\ Legible("target") /\ dir["target"] = IF Existed THEN "old" ELSE "none"
    /\ Replaces => tx.stagedExists /\ Has("stage", "new")

FirstStep ==
    IF Replaces THEN IF Existed THEN "unreserve" ELSE "publish"
    ELSE IF Existed THEN "retire" ELSE "sync commit"

Commit ==
    /\ At("idle") /\ tx.state = "staged" /\ Same
    /\ call' = [op |-> "commit", restored |-> "io"]
    /\ \/ /\ Holds(StillOriginal) /\ pc' = FirstStep /\ UNCHANGED answer
          /\ tx' = IF FirstStep = "sync commit" THEN [tx EXCEPT !.state = "committed"] ELSE tx
       \/ Fails(StillOriginal) /\ pc' = "idle" /\ answer' = "io" /\ UNCHANGED tx

(* Over an existing target: the old inode gets a second name before the    *)
(* candidate takes its first one.                                          *)
Unreserve ==
    /\ At("unreserve")
    /\ \/ /\ Holds(Matches("backup", tx.backupId)) /\ Write([dir EXCEPT !["backup"] = "none"])
          /\ tx' = [tx EXCEPT !.backupExists = FALSE] /\ Then("link")
       \/ Fails(Matches("backup", tx.backupId)) /\ Return("io") /\ Same /\ UNCHANGED tx

Link ==
    /\ At("link")
    /\ \/ /\ Holds(Bound("target")) /\ Write([dir EXCEPT !["backup"] = dir["target"]])
          /\ tx' = [tx EXCEPT !.backupExists = TRUE, !.backupHasTarget = TRUE,
                              !.backupId = "old"]
          /\ Then("pair")
       \/ Fails(Bound("target")) /\ Return("io") /\ Same /\ UNCHANGED tx

Paired == Linked("target", "backup", "old")

Pair ==
    /\ At("pair") /\ Same /\ UNCHANGED tx
    /\ \/ Holds(Paired /\ Has("stage", "new")) /\ Then("sync pair")
       \/ Fails(Paired /\ Has("stage", "new")) /\ Then("unlink pair")

SyncPair ==
    /\ At("sync pair") /\ UNCHANGED tx
    /\ \/ Holds(TRUE) /\ Sync /\ Then("swap")
       \/ Fails(TRUE) /\ Then("unlink pair") /\ Same

\* Mutated form: removes the target before it renames the candidate to it.
SwapApart ==
    /\ At("swap")
    /\ \/ /\ Holds(TRUE)
          /\ dir' = [dir EXCEPT !["target"] = dir["stage"], !["stage"] = "none"]
          /\ disk' = disk \cup {[dir EXCEPT !["target"] = "none"], dir'}
          /\ tx' = [tx EXCEPT !.stagedExists = FALSE, !.state = "committed"]
          /\ Then("sync commit")
       \/ Fails(TRUE) /\ Then("unlink pair") /\ Same /\ UNCHANGED tx

Swap ==
    /\ At("swap")
    /\ \/ /\ Holds(TRUE)
          /\ Write([dir EXCEPT !["target"] = dir["stage"], !["stage"] = "none"])
          /\ tx' = [tx EXCEPT !.stagedExists = FALSE, !.state = "committed"]
          /\ Then("sync commit")
       \/ Fails(TRUE) /\ Then("unlink pair") /\ Same /\ UNCHANGED tx

UnlinkPair ==
    /\ At("unlink pair")
    /\ \/ /\ Holds(Paired) /\ Write([dir EXCEPT !["backup"] = "none"])
          /\ tx' = [tx EXCEPT !.backupExists = FALSE, !.backupHasTarget = FALSE]
          /\ Return("io")
       \/ Fails(Paired) /\ Recover /\ RollBack("commit", "io") /\ Same

\* A removal renames the target over the reserved name.
Retire ==
    /\ At("retire")
    /\ LET can == tx.backupExists /\ Has("backup", tx.backupId) /\ Bound("target") IN
       \/ /\ Holds(can)
          /\ Write([dir EXCEPT !["backup"] = dir["target"], !["target"] = "none"])
          /\ tx' = [tx EXCEPT !.state = "committed", !.backupHasTarget = TRUE,
                              !.backupId = "old"]
          /\ Then("sync commit")
       \/ Fails(can) /\ Return("io") /\ Same /\ UNCHANGED tx

----------------------------------------------------------------------------
(* Where nothing was, the candidate takes the name only if it is free: by  *)
(* a rename that does not replace, or by a link.                           *)

\* Mutated form: renames without asking whether the name is still free.
PublishOver ==
    /\ At("publish")
    /\ LET can == Has("stage", "new") IN
       \/ /\ Holds(can) /\ Write([dir EXCEPT !["target"] = "new", !["stage"] = "none"])
          /\ tx' = [tx EXCEPT !.stagedExists = FALSE] /\ Then("published")
       \/ Fails(can) /\ Return("io") /\ Same /\ UNCHANGED tx

Publish ==
    /\ At("publish")
    /\ LET can == Has("stage", "new") /\ (budget.noreplace => ~Bound("target")) IN
       \/ /\ budget.noreplace /\ Holds(can)
          /\ Write([dir EXCEPT !["target"] = "new", !["stage"] = "none"])
          /\ tx' = [tx EXCEPT !.stagedExists = FALSE] /\ Then("published")
       \/ ~budget.noreplace /\ Holds(can) /\ Then("link stage") /\ Same /\ UNCHANGED tx
       \/ Fails(can) /\ Return("io") /\ Same /\ UNCHANGED tx

LinkStage ==
    /\ At("link stage") /\ UNCHANGED tx
    /\ \/ Holds(~Bound("target")) /\ Write([dir EXCEPT !["target"] = dir["stage"]])
          /\ Then("check link")
       \/ Fails(~Bound("target")) /\ Return("io") /\ Same

CheckLink ==
    /\ At("check link") /\ Same
    /\ \/ Holds(Linked("target", "stage", "new")) /\ Then("unlink stage") /\ UNCHANGED tx
       \/ Fails(Linked("target", "stage", "new")) /\ Recover /\ RollBack("commit", "io")

UnlinkStage ==
    /\ At("unlink stage")
    /\ \/ /\ Holds(TRUE) /\ Write([dir EXCEPT !["stage"] = "none"])
          /\ tx' = [tx EXCEPT !.stagedExists = FALSE] /\ Then("published")
       \/ Fails(TRUE) /\ Recover /\ RollBack("commit", "io") /\ Same

Published ==
    /\ At("published") /\ Same
    /\ \/ /\ Holds(Has("target", "new"))
          /\ tx' = [tx EXCEPT !.state = "committed"] /\ Then("sync commit")
       \/ Fails(Has("target", "new")) /\ Recover /\ RollBack("commit", "io")

----------------------------------------------------------------------------

SyncCommit ==
    /\ At("sync commit") /\ UNCHANGED tx
    /\ \/ Holds(TRUE) /\ Sync /\ IF Replaces THEN Then("validate") ELSE Return("ok")
       \/ Fails(TRUE) /\ RollBack("commit", "io") /\ Same

\* cli_binary_fingerprint_validator; a removal has none
Validate ==
    /\ At("validate") /\ Same /\ UNCHANGED tx
    /\ \/ Holds(dir["target"] = "new") /\ Return("ok")
       \/ Fails(dir["target"] = "new") /\ RollBack("commit", "rejected")

----------------------------------------------------------------------------
(* Rollback.                                                               *)

RollbackCall ==
    /\ At("idle") /\ tx.state \in {"committed", "recovery"}
    /\ RollBack("rollback", "ok") /\ Same /\ UNCHANGED <<tx, budget>>

Restorable ==
    /\ tx.backupHasTarget /\ Has("backup", tx.backupId)
    /\ Legible("target")
    /\ Bound("target") => Replaces /\ dir["target"] = "new"

\* Mutated form: forgets the link that a failed publication leaves at the target.
WithdrawableAlone == Matches("target", "new")

Withdrawable == Matches("target", "new") \/ (tx.stagedExists /\ Linked("target", "stage", "new"))

Examine ==
    /\ At("examine") /\ Same
    /\ IF Existed
       THEN \/ Holds(Restorable) /\ Then("restore") /\ UNCHANGED tx
            \/ Fails(Restorable) /\ Recover /\ Return("rollback failed")
       ELSE IF Replaces
       THEN \/ Holds(Withdrawable) /\ Then("withdraw") /\ UNCHANGED tx
            \/ Fails(Withdrawable) /\ Recover /\ Return("rollback failed")
       ELSE Holds(TRUE) /\ tx' = [tx EXCEPT !.state = "rolled back"] /\ Then("sync rollback")

Restore ==
    /\ At("restore")
    /\ \/ /\ Holds(Bound("backup"))
          /\ Write([dir EXCEPT !["target"] = dir["backup"], !["backup"] = "none"])
          /\ tx' = [tx EXCEPT !.state = "rolled back", !.backupExists = FALSE,
                              !.backupHasTarget = FALSE]
          /\ Then("sync rollback")
       \/ Fails(Bound("backup")) /\ Recover /\ Return("rollback failed") /\ Same

\* A target that is a second link of the candidate is looked at again when it is gone.
Withdraw ==
    /\ At("withdraw")
    /\ \/ /\ Holds(Withdrawable) /\ Write([dir EXCEPT !["target"] = "none"])
          /\ IF Matches("target", "new")
             THEN tx' = [tx EXCEPT !.state = "rolled back"] /\ Then("sync rollback")
             ELSE Then("check withdrawn") /\ UNCHANGED tx
       \/ Fails(Withdrawable) /\ Recover /\ Return("rollback failed") /\ Same

CheckWithdrawn ==
    /\ At("check withdrawn") /\ Same
    /\ LET good == Has("stage", "new") /\ ~Bound("target") IN
       \/ Holds(good) /\ tx' = [tx EXCEPT !.state = "rolled back"] /\ Then("sync rollback")
       \/ Fails(good) /\ Recover /\ Return("rollback failed")

\* Without the sync the commit's answer is that of a rollback that failed.
SyncRollback ==
    /\ At("sync rollback") /\ UNCHANGED tx
    /\ \/ Holds(TRUE) /\ Sync
          /\ IF call.op = "close" THEN Then("discard stage") ELSE Return(call.restored)
       \/ Fails(TRUE) /\ Same
          /\ Return(IF call.op = "commit" THEN "rollback failed" ELSE "io")

----------------------------------------------------------------------------
(* Finalisation, and the end of the transaction.                           *)

Finalize ==
    /\ At("idle") /\ tx.state = "committed"
    /\ call' = [op |-> "finalize", restored |-> "ok"]
    /\ LET can == tx.backupHasTarget => Matches("backup", tx.backupId) IN
       \/ /\ Holds(can) /\ pc' = "sync finalize" /\ UNCHANGED answer
          /\ IF tx.backupHasTarget
             THEN /\ Write([dir EXCEPT !["backup"] = "none"])
                  /\ tx' = [tx EXCEPT !.backupExists = FALSE, !.backupHasTarget = FALSE]
             ELSE Same /\ UNCHANGED tx
       \/ tx.backupHasTarget /\ Fails(can) /\ pc' = "idle" /\ answer' = "io"
          /\ Same /\ UNCHANGED tx

SyncFinalize ==
    /\ At("sync finalize")
    /\ \/ Holds(TRUE) /\ Sync /\ tx' = [tx EXCEPT !.state = "finalized"] /\ Return("ok")
       \/ Fails(TRUE) /\ Same /\ UNCHANGED tx /\ Return("io")

Close ==
    /\ At("idle") /\ tx.state \notin {"none", "gone"} /\ Same /\ UNCHANGED budget
    /\ IF tx.state \in {"committed", "recovery"}
       THEN RollBack("close", "ok") /\ UNCHANGED tx
       ELSE /\ call' = [op |-> "close", restored |-> "ok"]
            /\ IF tx.state = "finalized"
               THEN tx' = [tx EXCEPT !.state = "gone"] /\ pc' = "idle" /\ answer' = "ok"
               ELSE pc' = "discard stage" /\ UNCHANGED <<tx, answer>>

\* activation_unlink_expected of a name that is the transaction's own
Discard(n, i, owned, flag, next) ==
    /\ \/ /\ owned /\ Holds(Matches(n, i)) /\ Write([dir EXCEPT ![n] = "none"])
          /\ tx' = [tx EXCEPT ![flag] = FALSE]
       \/ owned /\ Fails(Matches(n, i)) /\ Same /\ tx' = [tx EXCEPT !.clean = FALSE]
       \/ ~owned /\ Same /\ UNCHANGED <<tx, budget>>
    /\ Then(next)
DiscardStage ==
    At("discard stage")
    /\ Discard("stage", "new", tx.stagedExists, "stagedExists", "discard backup")
DiscardBackup ==
    At("discard backup")
    /\ Discard("backup", tx.backupId, tx.backupExists /\ ~tx.backupHasTarget,
               "backupExists", "sync discard")

\* A preparation that failed ends the transaction whatever it could remove.
SyncDiscard ==
    /\ At("sync discard")
    /\ \E synced \in BOOLEAN :
       LET clean == tx.clean /\ synced IN
       /\ IF synced THEN Holds(TRUE) /\ Sync ELSE Fails(TRUE) /\ Same
       /\ tx' = [tx EXCEPT !.clean = TRUE,
                           !.state = IF clean \/ call.op = "prepare" THEN "gone" ELSE @]
       /\ Return(IF clean /\ call.op = "close" THEN "ok" ELSE "io")

----------------------------------------------------------------------------
(* The rest of the world.                                                  *)

\* Another program renames a file of its own to the target, or removes what is there.
Rival ==
    /\ pc # "dead" /\ budget.rivals > 0 /\ tx.state \notin {"none", "gone"}
    /\ budget' = [budget EXCEPT !.rivals = @ - 1] /\ meddled' = TRUE
    /\ \E i \in {"rival", "none"} : Write([dir EXCEPT !["target"] = i])
    /\ UNCHANGED <<tx, pc, call, answer>>

\* The power fails: the disk has any of the directories since the last sync.
PowerFails ==
    /\ pc # "dead" /\ budget.crashes > 0
    /\ budget' = [budget EXCEPT !.crashes = @ - 1]
    /\ pc' = "dead" /\ \E d \in disk : dir' = d /\ disk' = {d}
    /\ UNCHANGED <<tx, call, answer, meddled>>

Preparing == Reserve \/ SyncReserve \/ Stage \/ SyncStage
Committing ==
    \/ Unreserve \/ Link \/ Pair \/ SyncPair \/ Swap \/ UnlinkPair \/ Retire
    \/ Publish \/ LinkStage \/ CheckLink \/ UnlinkStage \/ Published
    \/ SyncCommit \/ Validate
RollingBack == Examine \/ Restore \/ Withdraw \/ CheckWithdrawn \/ SyncRollback
Ending == SyncFinalize \/ DiscardStage \/ DiscardBackup \/ SyncDiscard
Work == Preparing \/ Committing \/ RollingBack \/ Ending
Calls == Prepare \/ Commit \/ RollbackCall \/ Finalize \/ Close
Over == (pc = "dead" \/ tx.state = "gone") /\ UNCHANGED vars

Next == Work \/ Calls \/ Rival \/ PowerFails \/ Over

Spec == Init /\ [][Next]_vars

\* A call comes to an end, and a caller that has to closes its transaction again and again.
FairSpec == Spec /\ WF_vars(Work) /\ SF_vars(Close)

----------------------------------------------------------------------------
(* Properties.  The first two are about a directory that nobody else       *)
(* changes while the transaction lasts.                                    *)

Untouched(d) == d["target"] = IF Existed THEN "old" ELSE "none"
Done(d) == d["target"] = IF Replaces THEN "new" ELSE "none"
Holding(d, i) == \E n \in Name : d[n] = i

(* Whatever fails, and whatever the disk holds when the power does: a      *)
(* replaced binary is never missing and never half of one, and the old one *)
(* is there under some name until its backup is given up.                  *)
TargetKept ==
    ~meddled => \A d \in disk :
        /\ d["target"] \in {"old", "new", "none"}
        /\ Existed /\ Replaces => d["target"] # "none"
        /\ Existed /\ (tx.backupHasTarget \/ tx.state \in {"none", "staged", "rolled back"})
              => Holding(d, "old")

(* What a call answers is so, on the disk too where it claims success: a   *)
(* commit that fails with an I/O error or a rejection has left or restored *)
(* the target, a rollback has, an accepted change is final once nothing of *)
(* the old is left, and a closed transaction leaves no file behind.        *)
AnswersTrue ==
    pc = "idle" /\ ~meddled =>
        /\ call.op = "commit" /\ answer = "ok" => \A d \in disk : Done(d)
        /\ call.op = "commit" /\ answer \in {"io", "rejected"} => \A d \in disk : Untouched(d)
        /\ answer = "rollback failed" =>
              tx.state = "recovery" \/ (tx.state = "rolled back" /\ Untouched(dir))
        /\ call.op = "rollback" /\ answer = "ok" => \A d \in disk : Untouched(d)
        /\ call.op = "finalize" => \A d \in disk : Done(d)
        /\ call.op = "finalize" /\ answer = "ok" => \A d \in disk : ~Holding(d, "old")
        /\ call.op = "close" /\ answer = "ok" => \A d \in disk :
              /\ d["backup"] = "none" /\ d["stage"] = "none"
              /\ Done(d) \/ Untouched(d)

(* The binary is kept on the way, and in the end it is what the caller was *)
(* told.                                                                   *)
OutcomesTrue == TypeOK /\ TargetKept /\ AnswersTrue

(* The file another program puts at the target is not destroyed, except    *)
(* where it appears between the examination of an existing target and the  *)
(* rename over it.                                                         *)
RivalKept ==
    [][Holding(dir, "rival") /\ budget'.rivals = budget.rivals /\ pc' # "dead" =>
          Holding(dir', "rival") \/ (Existed /\ pc \in {"swap", "restore"})]_vars

Gone == tx.state = "gone" \/ pc = "dead"

(* A caller that closes its transaction again and again gets rid of it as  *)
(* long as nobody else has touched the target: the header's promise.       *)
CloseSucceeds == tx.state # "none" ~> Gone \/ meddled

(* It does unless somebody else has touched the target, the backup is a    *)
(* second link of a target that never changed and that could not be        *)
(* removed, or the backup is gone and only its removal could not be synced.*)
Wedged ==
    /\ tx.state = "recovery" /\ Existed
    /\ Paired \/ ~tx.backupHasTarget
CloseSucceedsOrWedged == tx.state # "none" ~> Gone \/ meddled \/ Wedged

(* From there no call helps: as long as nobody else touches the target and *)
(* the machine runs, each attempt to roll back or to close fails again.    *)
WedgedForGood == [][Wedged /\ ~meddled' /\ pc' # "dead" => Wedged']_vars
=============================================================================
