--------------------------- MODULE AccountDeletion ---------------------------
(***************************************************************************)
(* Deleting an account, over a workspace it may own or only be in: the     *)
(* request that locks the account and hides its boards, the grace period   *)
(* in which support can take the request back, and the job that, after it, *)
(* empties the account's folders in the object store and then erases its   *)
(* rows.  None of these takes the workspace's lock, so people go on        *)
(* joining, leaving and being removed between any two steps of them.       *)
(*                                                                         *)
(* A run of the job takes the oldest requests that are due, so many of     *)
(* them, and each stops at the first thing that fails, is refused or kills *)
(* it; the next run starts over from the request.                          *)
(***************************************************************************)
EXTENDS Workspace

CONSTANTS
  NoRequest,
  ACCOUNT_PURGE_LIMIT,  \* requests a run of the job takes at most
  MaxAsked              \* bound: requests somebody makes

ASSUME NoRequestAssumption == NoRequest \notin Request
ASSUME LimitAssumption == ACCOUNT_PURGE_LIMIT \in Nat \ {0} /\ MaxAsked \in Nat
\* A folder of the store is a board's or an account's.
ASSUME FolderAssumption == Board \cap Person = {}
ASSUME StampsAssumption == Request \cap {Never, "byHand", "withWorkspace"} = {}

VARIABLES
  request,   \* account_deletions
  stale,     \* per request, the invitations open as it was made: they last a
             \* week and the grace period a month
  before,    \* per request, the requests made earlier
  asking,    \* people whose request has looked and not committed
  job,       \* the purge job
  lost,      \* folders in the store that lost files
  late,      \* history: people and boards that came in while rows were erased
  raced      \* history: requests somebody joined the account's workspace under

adVars == <<request, stale, before, asking, job, lost, late, raced>>
vars == <<wsVars, adVars>>

Folder == Board \cup Person
NoJob == [step |-> "idle", request |-> NoRequest, left |-> {}, listed |-> {}]
NoDeletion == [user |-> Nobody, state |-> "none", due |-> FALSE]

AdInit ==
  /\ Init
  /\ request = [r \in Request |-> NoDeletion]
  /\ stale = [r \in Request |-> {}]
  /\ before = [r \in Request |-> {}]
  /\ asking = {}
  /\ job = NoJob
  /\ lost = {}
  /\ late = {}
  /\ raced = {}

IsScheduled(r) == request[r].state = "scheduled"
Scheduled(p) == \E r \in Request : IsScheduled(r) /\ request[r].user = p
IsDue(r) == IsScheduled(r) /\ request[r].due

\* The account owns a workspace, deleted or not, that others belong to.
SharesWorkspace(p) == p \in Owners /\ \E q \in Person \ {p} : IsMember(q)

OwnedBoards(p) == {b \in Board : board[b].owner = p}

-----------------------------------------------------------------------------
(* The request and its grace period.                                       *)

\* The account's row is locked, which one request does at a time, and then the
\* workspaces it owns are read.
AskDeletion(p) ==
  /\ p \notin asking /\ Active(p) /\ ~Scheduled(p)
  /\ Cardinality({r \in Request : request[r].user = p}) < MaxAsked
  /\ ~SharesWorkspace(p)
  /\ asking' = asking \cup {p}
  /\ UNCHANGED <<wsVars, request, stale, before, job, lost, late, raced>>

\* The instant of the request is none that was used before.
NextRequest == CHOOSE r \in Request : request[r] = NoDeletion

\* The workspace may have changed since, and is not read again.  One that
\* fails leaves nothing, as if it had not asked.
RequestAccountDeletion(p, r) ==
  /\ p \in asking /\ request[r] = NoDeletion /\ r = NextRequest
  /\ asking' = asking \ {p}
  /\ request' = [request EXCEPT ![r] = [user |-> p, state |-> "scheduled", due |-> FALSE]]
  /\ stale' = [stale EXCEPT ![r] = {i \in Invite : invite[i].state = "pending"}]
  /\ before' = [before EXCEPT ![r] = {q \in Request : request[q] # NoDeletion}]
  /\ disabled' = disabled \cup {p}
  /\ board' = [b \in Board |-> IF b \in OwnedBoards(p) \cap LiveBoards
                 THEN [board[b] EXCEPT !.deletedAt = r] ELSE board[b]]
  /\ raced' = IF SharesWorkspace(p) THEN raced \cup {r} ELSE raced
  /\ UNCHANGED <<ws, member, grant, invite, lock, call, acts, history, job, lost, late>>

\* Mutant of InGrace: a restore is refused only once the account is erased.
NotErased(r) == IsScheduled(r)

InGrace(r) == IsScheduled(r) /\ ~request[r].due

\* Mutant of Restored: every board of the account comes back.
EveryBoardOf(p, r) == OwnedBoards(p)

\* What carries the request's own instant and is still the person's.
Restored(p, r) == {b \in OwnedBoards(p) : board[b].deletedAt = r}

CancelAccountDeletion(r) ==
  LET p == request[r].user IN
  /\ InGrace(r)
  /\ board' = [b \in Board |-> IF b \in Restored(p, r)
                 THEN [board[b] EXCEPT !.deletedAt = Never] ELSE board[b]]
  /\ disabled' = disabled \ {p}
  /\ request' = [request EXCEPT ![r].state = "cancelled"]
  /\ UNCHANGED <<ws, member, grant, invite, lock, call, acts, history,
                 stale, before, asking, job, lost, late, raced>>

\* A month passes: what was in flight is over, and so are the invitations of
\* before it that nobody sent again.  Older requests were due before.
GraceEnds(r) ==
  /\ InGrace(r)
  /\ \A q \in before[r] : ~InGrace(q)
  /\ asking = {} /\ \A c \in Call : call[c] = Idle
  /\ \A i \in stale[r] : invite[i].state = "pending" => invite[i].expired
  /\ request' = [request EXCEPT ![r].due = TRUE]
  /\ UNCHANGED <<wsVars, stale, before, asking, job, lost, late, raced>>

-----------------------------------------------------------------------------
(* The purge job.                                                          *)

\* Mutant of PurgeBlocker: what was asked at the request is not asked again.
AskedAlready(p) == FALSE

\* The account owns what other people would lose.
PurgeBlocker(p) ==
  \/ SharesWorkspace(p)
  \/ p \in Owners /\ \E b \in Board : Exists(b) /\ board[b].owner # p

PurgeStep(state) ==
  job' = state /\ UNCHANGED <<wsVars, request, stale, before, asking, late, raced>>

\* The requests a run takes up before this one.
OlderDue(r) == {q \in before[r] : IsDue(q)}

\* Mutant of StartPurge: an account whose files began to go is left alone.
StartUntouched(r) ==
  /\ job = NoJob /\ IsDue(r) /\ lost = {}
  /\ Cardinality(OlderDue(r)) < ACCOUNT_PURGE_LIMIT
  /\ ~PurgeBlocker(request[r].user)
  /\ PurgeStep([NoJob EXCEPT !.step = "list", !.request = r])
  /\ UNCHANGED lost

StartPurge(r) ==
  /\ job = NoJob /\ IsDue(r)
  /\ Cardinality(OlderDue(r)) < ACCOUNT_PURGE_LIMIT
  /\ ~PurgeBlocker(request[r].user)
  /\ PurgeStep([NoJob EXCEPT !.step = "list", !.request = r])
  /\ UNCHANGED lost

AccountStorage(p) == {p} \cup OwnedBoards(p)

ListFolders ==
  LET folders == AccountStorage(request[job.request].user) IN
  /\ job.step = "list"
  /\ PurgeStep([job EXCEPT !.step = "empty", !.left = folders, !.listed = folders])
  /\ UNCHANGED lost

EmptyFolder(f) ==
  /\ job.step = "empty" /\ f \in job.left
  /\ PurgeStep([job EXCEPT !.left = @ \ {f}])
  /\ lost' = lost \cup {f}

\* A folder failed, some of it gone or none, or the process died.
StopPurge ==
  /\ job.step # "idle" /\ acts < MaxActs
  /\ \E f \in job.left \cup {NoRequest} : lost' = lost \cup (job.left \cap {f})
  /\ job' = NoJob
  /\ acts' = acts + 1
  /\ UNCHANGED <<ws, member, board, grant, invite, disabled, lock, call, history,
                 request, stale, before, asking, late, raced>>

\* Mutant of FilesGone: the rows are erased whatever the store answered.
FilesListed == job.step = "empty"

FilesGone == job.step = "empty" /\ job.left = {}

\* The transaction locks the request and asks again what stands in the way.
BeginErase ==
  LET p == request[job.request].user IN
  /\ FilesGone /\ IsDue(job.request) /\ ~PurgeBlocker(p)
  /\ PurgeStep([job EXCEPT !.step = "erase"])
  /\ UNCHANGED lost

\* What it then refuses is thrown, and nothing it did remains.
RefuseErase ==
  /\ \/ FilesGone /\ (PurgeBlocker(request[job.request].user) \/ ~IsDue(job.request))
     \/ /\ job.step = "erase" /\ request[job.request].user \in Owners
        /\ \E b \in Board : Exists(b) /\ board[b].owner # request[job.request].user
  /\ PurgeStep(NoJob)
  /\ UNCHANGED lost

\* The boards deleted, nothing of anybody else's is in the workspaces owned.
NothingRemains(p) ==
  p \in Owners => \A b \in Board : Exists(b) => board[b].owner = p

CheckRemaining ==
  /\ job.step = "erase" /\ NothingRemains(request[job.request].user)
  /\ PurgeStep([job EXCEPT !.step = "delete"])
  /\ UNCHANGED lost

\* Its own rows and, with a workspace it owns, everything in that by cascade.
\* Open invitations the person sent go too: which they are is not modelled.
EraseAccount ==
  LET p == request[job.request].user
      owns == p \in Owners
  IN /\ job.step = "delete"
     /\ owns \/ ws.offeredTo = p => RowFree
     /\ board' = [b \in Board |-> 
          IF Exists(b) /\ (owns \/ board[b].owner = p) THEN ErasedBoard ELSE board[b]]
     /\ member' = [q \in Person |-> IF owns \/ q = p THEN "none" ELSE member[q]]
     /\ grant' = [b \in Board |-> [q \in Person |->
          IF q = p \/ board'[b] = ErasedBoard THEN NoGrant ELSE grant[b][q]]]
     /\ ws' = IF owns THEN [state |-> "erased", offeredTo |-> Nobody]
              ELSE IF ws.offeredTo = p THEN [ws EXCEPT !.offeredTo = Nobody] ELSE ws
     /\ \E sent \in SUBSET {i \in Invite : invite[i].state = "pending"} :
          invite' = [i \in Invite |->
            IF owns \/ invite[i].to = p \/ i \in sent THEN NoInvitation ELSE invite[i]]
     /\ request' = [request EXCEPT ![job.request].state = "completed"]
     /\ out' = [out EXCEPT ![p] = {}]
     /\ job' = NoJob
     /\ UNCHANGED <<disabled, lock, call, acts, strays, stale, before, asking, lost, late,
                    raced>>

-----------------------------------------------------------------------------
(* The workspace meanwhile.                                                *)

\* Who joined since the blocker was asked about, and what came since the
\* remaining boards were counted.
Came ==
  {p \in Person : job.step \in {"erase", "delete"} /\ ~IsMember(p) /\ member'[p] # "none"}
    \cup {b \in Board : job.step = "delete" /\ board[b] # board'[b]}

InWorkspace ==
  /\ WsNext
  /\ late' = late \cup Came
  /\ stale' = [r \in Request |->
       {i \in stale[r] : invite[i].expired => invite'[i].expired}]
  /\ UNCHANGED <<request, before, asking, job, lost, raced>>

AdNext ==
  \/ InWorkspace
  \/ \E p \in Person :
       AskDeletion(p) \/ \E r \in Request : RequestAccountDeletion(p, r)
  \/ \E r \in Request : CancelAccountDeletion(r) \/ GraceEnds(r) \/ StartPurge(r)
  \/ \E f \in Folder : EmptyFolder(f)
  \/ ListFolders \/ StopPurge \/ BeginErase \/ RefuseErase \/ CheckRemaining \/ EraseAccount

AdSpec == AdInit /\ [][AdNext]_vars

\* The job is run every day and tries each request it takes, what is under the
\* lock ends, and PostgreSQL serves those waiting for it in turn.
Fairness ==
  /\ \A r \in Request : SF_vars(StartPurge(r))
  /\ \A f \in Folder : WF_vars(EmptyFolder(f))
  /\ WF_vars(ListFolders) /\ WF_vars(BeginErase) /\ WF_vars(RefuseErase)
  /\ WF_vars(CheckRemaining) /\ SF_vars(EraseAccount)
  /\ \A c \in Call : WF_vars(CommitLocking(c) /\ InWorkspace)

FairSpec == AdSpec /\ Fairness

-----------------------------------------------------------------------------
\* "The purge deletes files before rows ... restoring it would hand back
\* boards with holes in them": a board anybody can open has lost its images
\* only if it belongs to an account that can no longer come back; supposing
\* nobody joined an owner's workspace within the transaction of their request.
NoHoles ==
  raced = {} => \A b \in LiveBoards \ strays : b \in lost =>
    \E r \in Request : IsDue(r) /\ request[r].user = board[b].owner

\* Rows go only once every folder they were the only list of is empty.
FilesGoBeforeRows ==
  [][\A r \in Request : IsScheduled(r) /\ request'[r].state = "completed" =>
       job.listed # {} /\ job.listed \subseteq lost]_vars

\* Erasing an account takes nobody else's board and nobody else's place in a
\* workspace, but what came in after the transaction had looked.
EraseSparesOthers ==
  [][\A r \in Request : IsScheduled(r) /\ request'[r].state = "completed" =>
       /\ \A b \in Board : Exists(b) /\ board'[b] = ErasedBoard =>
            board[b].owner = request[r].user \/ b \in late
       /\ \A p \in Person : IsMember(p) /\ member'[p] = "none" =>
            p = request[r].user \/ p \in late]_vars

\* Nothing deleted comes back but what a request hid, in its grace, for the
\* person who made it: not the trash, not a deleted workspace.
OnlyTheHiddenComeBack ==
  [][\A b \in Board : Exists(b) /\ board[b].deletedAt # Never =>
       \/ board'[b].deletedAt = board[b].deletedAt
       \/ board'[b] = ErasedBoard
       \/ \E r \in Request : /\ board[b].deletedAt = r /\ InGrace(r)
                             /\ request[r].user = board[b].owner
                             /\ request'[r].state = "cancelled"]_vars

\* Older requests that cannot go fill every run of the job.
CrowdedOut(r) ==
  Cardinality({q \in OlderDue(r) : PurgeBlocker(request[q].user)}) >= ACCOUNT_PURGE_LIMIT

\* An account past its grace is erased, however often the job stops half-way,
\* unless it owns what other people would lose, or older requests for which
\* that is so leave the job no room for it.
PurgeFinishes ==
  \A r \in Request :
    IsDue(r) ~> \/ request[r].state = "completed"
                \/ PurgeBlocker(request[r].user)
                \/ CrowdedOut(r)

(* What the sources say, and the code does not keep.                       *)

\* account-deletion.ts, of a workspace shared with others or holding their
\* boards: "Neither can happen today".
NeverBlocked ==
  \A r \in Request : IsScheduled(r) => ~PurgeBlocker(request[r].user)

=============================================================================
