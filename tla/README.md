# agent-knowledge-kit: TLA+ models, checks and proofs

This directory keeps the formal model of the system next to its code. The
system is a knowledge server that versions documents and cuts releases, the
hosts that subscribe to those releases, and the page on which operators edit,
publish and settle conflicts. Paths below are relative to `src/`.

## The system

| Component | State it keeps | Operations | Talks to |
|---|---|---|---|
| Store (`knowledge-server/store/store.go`) | SQLite: document versions with links, releases, conflict register, heartbeats, resync requests, host tokens | SaveDoc, CutRelease, PreviewRelease, FlagClaimConflict, ResolveConflict, Heartbeat, RequestResync, token operations, reads | called by the API only |
| API (`api.go`, `auth.go`) | the operator token's digest | one handler per route; authentication and host binding around them | store |
| Subscriber (`subscriber/main.go`) | below `KNOWLEDGE_HOME`: `releases/<id>[.n]`, the `corpus` symlink, the `.applied` marker | one `converge` pass per interval | API over HTTP; agents through the files |
| Editing surface (`ui/app.js`, `ui/lib.mjs`) | the tab: editor, history, publish, conflict and fleet views | event handlers with `await`s in them | API over HTTP |
| Server process (`main.go`, `auth.go`) | the operator token file | start, with flags | the two above |
| Adapters (`adapters/`) | one managed block or path per harness | run after a pass | the corpus |

**What makes it hard.** The store is serial: it owns one connection
(`SetMaxOpenConns(1)`) and every operation is one transaction, so what can go
wrong there is a *sequence* of legal operations, such as a demotion that makes
a released document vanish, a link that was right when it was linted, or a
resolution that outlives its evidence. The subscriber is a chain of file and
network steps that may fail or die at each of them, its answers are best
effort, and the agents may write to what it installs. The page runs one handler
at a time, but every `await` lets another handler in, and answers arrive in any
order.

**What makes each correct.**

- Store: one active version per family; releases closed under their links,
  moving forward and equal to what was hashed; one open conflict per kind and
  family, whose attempt counter changes with its evidence; history never
  rewritten.
- Subscriber: agents read only verified trees of published releases, never an
  older one than before; the marker and the heartbeats do not say more than
  is true; in the end the latest release is shown and every resync answered.
- Conflict page: what is saved under a conflict is what was refused there.
- Editor and history: a save goes over the version that was shown, and history
  is shown under its own document.
- Publish: what is released is what the page showed.
- Fleet: no host looks current or alive that is not, and the table never goes
  back.
- Session: signing out stands, and a refused token leads to the login view.
- Tokens: a host speaks for itself only; an ended token is refused, a told one
  is not.
- Start: no server is reachable without the protection it was asked for.
- Adapter: the user's lines stay, and the block is one whole kernel.

## Modules

| Module | Models |
|---|---|
| `KnowledgeStore` | documents, links, releases and conflicts of the store; one action per operation |
| `ReleaseLog` | what the store promises hosts: a log of releases that only grows and never drops a document |
| `KnowledgeStoreProofs` | theorems about `KnowledgeStore`: documents and releases, then the conflict register |
| `Subscriber` | a converge pass, one action per step, with the server side of it |
| `SubscriberProofs` | theorems about `Subscriber` |
| `Delivery` | what a host is promised: it is shown published releases, moving forward |
| `ConflictView` | `openConflict` and `submitResolve`, cut at their `await`s |
| `EditorTab` | `openEditor`, `submitEditorSave` and the history view |
| `PublishTab` | preview, arming, confirming and the diffs of the publish view |
| `ManifestDiff`, `LineDiff` | the two diffs the page draws, loop by loop |
| `FleetPage` | the fleet view, and `listHosts` with its three reads |
| `Session` | boot, login, logout and what refusals do to the view |
| `HostTokens` | the token table, authentication and the routes of hosts |
| `Startup` | flags, operator token file and the gate of the listen address |
| `Materialize` | names, manifests and archives, from `validateIdent` to `recomputeContentHash` |
| `ManagedBlock` | the block in `AGENTS.md` and the resolution of the kernel's path |
| `Serving` | composes `HostTokens`, `Startup` and `Session`: who may talk to the server |
| `Pages` | composes `EditorTab`, `ConflictView`, `PublishTab`, `ManifestDiff` and `LineDiff`: the views that save and publish, and the diffs they draw |
| `HostFiles` | composes `Materialize`, `ManagedBlock` and `FleetPage`: what is on a host, and what is told of it |
| `ServingProofs` | theorems about `HostTokens`, `Startup` and `Session` (EXTENDS `Serving`) |
| `PublishTabProofs` | theorems about `PublishTab`, `ManifestDiff` and `LineDiff` (EXTENDS `Pages`) |
| `ConflictViewProofs` | theorems about `ConflictView` (EXTENDS `Pages`) |
| `EditorTabProofs` | theorems about `EditorTab` |
| `HostFilesProofs` | theorems about `FleetPage`, `ManagedBlock` and `Materialize` (EXTENDS `HostFiles`) |
| `DataInduction` | lemmas: induction over numbers, and that folds exist (for `HostFilesProofs` and `PublishTabProofs`) |
| `MCKnowledgeStore`, `MCSubscriber`, `MCConflictView` | the instances of these modules for TLC; the first has two parts, what is released and what is registered |
| `MCServer`, `MCPages`, `MCHostFiles` | the instances of `Serving`, `Pages` and `HostFiles` |

The parts of a composing module share no state, as their counterparts in the
code share none; it gives runs and proofs one name for what each part promises.
`KnowledgeStore` implements `ReleaseLog` (`ServesReleaseLog`); `Subscriber`
uses `ReleaseLog` as its server (`Server == INSTANCE ReleaseLog`), so what the
subscriber is checked against is what the store is proved to provide, and
`Subscriber` implements `Delivery` (`ImplementsDelivery`). Operators whose name
is that of another one and a fault (`SavedNoDemotion`, `FetchCurrentKept`) are
not part of a specification. Each is a plausible bug that a property must
catch.

### KnowledgeStore

`docs[f]` are the rows of `doc_versions` of family `f` in version order, with
their `doc_links`; `releases` and `conflicts` are the tables of that name, an id
being a position. Titles, owners, triggers, timestamps and editors are left out.
Both seeded collections are release-bearing and no operation adds another, so a
family is a (collection, family id) pair, of which `Kernel` is a subset, and
`Rank` is the order of `ORDER BY collection, family_id`. The content hash is
modelled by what it covers, the set of path and body pairs, and taken to be
injective.

| Code | Action |
|---|---|
| `SaveDoc`, `saveDocTx` | `SaveDoc`, `SaveStale` (stale base: conflict recorded) |
| `CutRelease`, `releaseCandidate`, `lintDocLinksTx` | `CutRelease`, `CutRefused` (lint: policy conflict recorded) |
| `FlagClaimConflict` | `FlagClaim` |
| `ResolveConflict` | `ResolveKeep`, `ResolveSave` |

An operation that returns an error and records nothing rolls back, and is a
stuttering step. So are reads and `PreviewRelease`. A base version is a number
from 0 on; the negative one that a client might send is refused and recorded
like any other that is not current, and left out.

### Subscriber

The actions from `FetchCurrent` to `SendHeartbeat` are the steps of `converge`,
in the order of the code; the server answers the manifest and the resync flag
from two queries, so these are two steps. `writeApplied` truncates before it
writes, so it is two steps as well. `StepFails` is any of the early returns
that report an error, `Crash` a process that dies, `Download` with other bytes
an archive damaged on the way (`extractTar` lets through exactly the paths of
the manifest). A heartbeat is handed to the wire, arrives in any order, or is
lost. `Tamper` is an agent that changes the tree it reads. `before` and `owed`
are history variables for properties.

`Proc` has one process as documented. Two are possible all the same: cron may
start a second `-once` while a slow first one is still on its way, or beside
a polling process, and nothing locks the home. What then still holds is checked
by `Sub_shared` and proved for any number of processes. What does not hold, and
is therefore stated for one process only, is the order of things: if a pass that
fetched release 1 flips after another one flipped to release 2, and the other
one writes its marker last, the marker says 2, the corpus shows 1, and every
later pass stops early, reporting 2, until release 3 or a resync (TLC finds
that `MarkerNotAhead` fails for two processes, without any fault).

Constants `MaxRelease`, `MaxRequest`, `MaxFault`, `MaxBeat` and `MaxCopy` bound
releases, resync requests, faults, heartbeats on the wire and directories of
one release.

### ConflictView

`call[s]` is a request of a running handler: sent, served, then continued.
`conflict` is `state.conflict`; `form` says whose payload, and which attempt of
it, the merge form holds. Other editors' saves, accepted or refused, happen at
any time. `patient` says, for a whole behaviour, whether the operator starts
something new only when nothing is awaited; what only holds for such an
operator says so (`NoLeakIfPatient`, `ResolvedAsSeen`). `merges` and `born` are
fixed for a behaviour: which records are edit conflicts, the only ones that
fetch twice and have a form, and which families had a version when theirs was
recorded. A family without versions is answered by 404, and its merge is sent
without a base version: `ResolvedAsSeen` makes an exception for it, because a
first version that somebody else saves meanwhile is superseded unseen.

### The other views of the page

`EditorTab`, `PublishTab`, `FleetPage` and `Session` are built like
`ConflictView`: a handler is cut at its `await`s, a request is sent, served
once, and answered, late or never. Each keeps only the state its handlers read
or write; the view they leave for is `"other"`.

- `EditorTab`: a version is its author, the form is what it was filled from.
  `fresh` in a request says whether `state.current` is still the object the
  handler started with and, in the history view, whether `historyGen` is still
  its own. `apiFetch` catches what `fetch` throws but awaits the body of the
  answer outside its `try`, and the handlers of these views catch nothing: an
  answer that is cut in its body (`CutShort`) ends a handler where it is, while
  `Fails` is an error that the handler sees. `cut`, `orphaned` and `asked` are
  history variables. `task` says whether
  the operator of a behaviour edits or reads histories: the two views touch
  disjoint state but for the document that is open.
- `PublishTab`: content stands for its hash. `refreshPublish` has no guard
  against a second one, which is what `Publish_overlap` shows; for an operator
  who waits (`patient`) the page has the stronger properties `CutAsReviewed`
  and `ReviewCoherent`.
- `FleetPage`: a stamp is the time and how far the clock had been set back, so
  that an age can be wrong. The tolerance of `fleetStatus` for a `seen_at` in
  the future is explained in `lib.mjs` by a heartbeat between the read and the
  stamp; since the rows are read before the stamp is taken, only a clock that
  was set back produces one.
- `Session`: a request has the token of the moment it was sent. The requests of
  other modules appear as far as their refusal clears the token. A late refusal
  takes away a newer token as well; an operator who logs in with nothing under
  way, and waits (`patient`), is spared that (`ListsHoldAToken`).

### ManifestDiff and LineDiff

One action per iteration of a loop, and the answer compared with a definition
that does not iterate: the paths whose files a host would get anew, and the
length of a longest common subsequence found by enumeration.

### HostTokens

A token is its digest, and a request is authenticated by one action and served
by another, with issues and revocations in between. The answer that tells a
token may be lost: the host is then locked out until the next issue. With
authentication off a token that is sent changes nothing. `owner`, `told` and
`ended` are history variables: whom a token was drawn for, and what the world
knows of it.

### Startup

A start is five steps; a process may be killed, or its disk be full, at each.
`Supply` and `Remove` are a person at the file. A token file that was cut short
is neither accepted nor written again: it takes a person to remove it.

### Materialize

A path is the sequence of its elements. `served` says whether manifest and
archive are the server's, with documents that `validateIdent` let in, or
anyone's. `Target` is what joining and cleaning makes of a name. `Long` has the
elements that are too long for the file system of the host (255 bytes on most):
`validateIdent` has no limit of length, so such a document is released, and
`Writable` refuses it. File systems that take two spellings for one name, and
limits on the length of whole paths, are left out.

### ManagedBlock

A file is a sequence of lines, and `awk`, truncation and the writing of the
lines are steps of their own. The corpus may be flipped between the two times
the path is followed; the script then refuses. A run may be killed at every
step; `torn` remembers that one was killed after it truncated the file, which
loses the user's lines for good. The user may save the file at any time
(`Edit`), as nothing locks it; `raced` remembers that it was saved between
`awk`'s reading and the end of a run, and `aside` that it was saved since the
script truncated it. An editor that writes in place leaves the script to go on
at its own offset in the new text (`Place`), one that renames a new file into
place leaves it to write where nobody looks. A save is one step, and so is
`awk`'s reading of the file.

## Runs

Machines that share no state are explored by one run where they belong
together: a variable `part` of the MC module says which of them moves, and the
others stay as they start. The states of such a run are the sum of what its
parts reach, never their product.

The property named after a component or a view (`EditorInvariant`,
`MergeInvariant`, `PublishInvariant`, `DiffInvariant`, `TokenInvariant`,
`StartInvariant`, `TabInvariant`, `TreeInvariant`, `BlockInvariant`,
`PageInvariant`) is the conjunction of its types and of the named parts that
its module ends with, each with what it says beside it.

| Run | Question | Instance | States |
|---|---|---|---|
| `Store` | what releases promise under every order of saves and cuts, with `ServesReleaseLog`; the conflict register under every operation | releases: 2 families, 3 versions, 2 releases, 5 payloads with links, no second attempt; register: 1 kernel family, 2 versions, 2 releases, 3 records, of which the newest has 2 attempts, and claims between 2 families of 1 version | 1.3 million |
| `Sub_safety` | a host under failures; `ImplementsDelivery` | 1 process, 2 releases, 2 requests, 2 faults (one after a second request), 2 heartbeats | 1.0 million |
| `Sub_live` | a host that keeps polling | as above, 1 request, 1 heartbeat at a time | 0.2 million |
| `Sub_shared` | two processes on one home: what is flipped to, and how far back | 2 releases with up to 3 directories each, 1 request, 1 fault, 1 heartbeat | 7.1 million |
| `Sub_kept` | comment of `converge` (violated) | | |
| `Pages` | an operator who edits or reads without waiting; the merge view with one who waits or not; cuts of one who waits or not; the two diffs of the views | 2 documents or records, 2 requests, 3 versions, 2 attempts (no second one before an operator who does not wait, 2 versions before one who reads); one of two records may be a claim or of a family without versions; others save to one of two; 2 contents, 3 releases and edits (2 for one who does not wait); all pairs of manifests over 3 paths, 2 bodies and 2 versions; all pairs of up to 5 lines from 3, over the product budget included | 1.2 million |
| `View_leak` | comment of `openConflict` (violated) | | |
| `Publish_overlap` | comment of `confirmPublishCut` (violated) | | |
| `Editor_locked` | load gate of the editor, UX-2 (violated) | | |
| `Lines_lost` | header of `update-agents-md.sh` (violated) | | |
| `Server` | who may talk to the server: host tokens, the start, the session of a tab | 2 hosts, one of which is heard of, 2 tokens, 2 requests; 2 processes, 3 starts; 2 requests of the tab | 0.9 million |
| `Host_files` | what is on a host, and what operators are told of it | 2 documents, 3 entries, a name that is too long; 2 lines, 3 kernels, 2 edits, 2 flips; 1 row, 2 requests within one unit of time, 1 up to time 2, set back by 1 | 1.1 million |

**Why the bounds are enough.** A fault of the store shows with two versions
(one demoted by the other), a third that demotes again, two releases (one after
the other) and two families (link source and target). A refused save needs one
earlier version; resolve, open again and resolve needs two records of a kind,
and three leave room for one of another kind. A host needs two releases to move
between, a request and an earlier one whose acknowledgement is late, two faults
to combine (a change of the files and a crash, a crash and a lost heartbeat),
and two heartbeats to overtake one another. Processes and the bodies of
releases are interchangeable (`Symmetry`). In `Sub_safety` and `Sub_shared`
states that hold the last copy of a release are not explored further
(`CopiesLeft`): this prunes behaviours that rebuild the same release again and
again. A pass that falls back installs the older release once more, which
`MaxCopy` of 2 leaves room for in `Sub_shared`: there an overtaken pass does
bring back what the agents read when it began, and a second race starts from
there. `Sub_live` has no such constraint; its `MaxCopy` is never reached, or
the run would report a deadlock; bodies being interchangeable, it lets the
first release have one of them (`MCNext`), as symmetry would not be sound for
liveness. On the page two records and two requests are what it takes for one to
interfere with the other; symmetry of records and of requests is sound because
no definition tells them apart and these runs check no liveness. The other
views need two requests for the same reason, a second document to be taken for
the first (the rows of hosts do not touch), and a version, release or edit of
somebody else on each side of a request. A clock that is set back once and a
tolerance of nothing give every sign of an age and of a difference. Three
starts are one to be cut short, one to provide the token and one to run beside
it. Three entries can miss, repeat and replace a document. Two edits put a line
before and behind the block, or between `awk`'s reading and the rewrite once
there is a line to lose, and two flips install a kernel and another one during
a run over its block. Of two bodies only which of their lines are equal matters
to a diff, so that lines are numbered by their first appearance (`InOrder`).

Some bounds depend on who acts (`Region` in the MC modules): states beyond them
are checked and not explored further, and none stands beside a liveness
property. Diffs, installations and server starts come to an end, and a store at
its bounds has nothing left to do, so `Store`, `Pages`, `Server`, `Host_files`
and the runs of their parts do not check deadlock.

**Fairness.** `FairSpec` assumes that the poll loop of each process goes on
(`for { time.Sleep; converge }` in `main`: each pass ends, since the HTTP
client has a timeout) and that a heartbeat on the wire arrives unless it is
lost. Faults, losses included, are bounded by `MaxFault`: the liveness
properties say what happens once failures stop. Nothing is assumed of
operators: no fairness on `Publish`, `RequestResync` or `Tamper`. The store
and the page have no fairness and no liveness property: they only react.

**Disagreements with the comments.**

- `Sub_kept`: `converge` promises that after a failure "the previous corpus is
  left untouched". When `writeApplied` fails after the flip, the pass reports
  failure with the new corpus in place. The tree is verified, and the next pass
  repairs the marker; what is wrong is the report.
- `View_leak`: `openConflict` resets the page at its entry "so no state leaks
  between successive conflict views". Its awaits have no identity guard (the
  editor, history and fleet views have one), so a second conflict opened before
  the document of the first arrives gets the first one's form and base version
  and an enabled save button.
- `Publish_overlap`: after a refused cut "Cut stays disabled until the next
  refresh". A refresh that was under way already, with a preview served before
  the content changed, enables it again with the refused candidate.
- `Editor_locked`: UX-2 of `docs/plans/ui-help-loading.md` has "every other
  response" to a load leave "editing disabled" and enable Reload. An answer
  that is cut in its body rejects `apiFetch`, which `openEditor` does not
  catch: the fields and Reload stay disabled. The operator has to leave the
  view and open the document again. A save that meets this leaves its button
  dead in the same way. `LockedByCutOnly`, part of `EditorInvariant`, says that
  nothing else does either.
- `Lines_lost`: `update-agents-md.sh` "leaves everything outside the markers
  untouched". It writes from the copy that `awk` made, and takes no lock: what
  the user saves in between is lost when the run has ended well.
  `UntouchedUnlessKilled` leaves killed runs aside, which lose lines too, as the
  file is truncated and written again; `OutsideUntouched`, part of
  `BlockInvariant`, says that these two are the only ways.

Three more have no run of their own.

- `manifestDiff` is said to decide by "equality of {family_id, version,
  sha256}" (`ui/lib.mjs`), and its code compares the last only. A family that
  is saved again with the same body has a new version under the same content
  hash (it covers paths and bodies), and is not listed: the operator sees "no
  changes" for a release whose manifest does differ. `TellsWhatHostsGet` says
  what both readings share and leaves the case open: what a host gets anew or
  loses is listed, and nothing is that is the same in both manifests.
  `ListTellsWhatHostsGet` proves the same.
- `CutRelease` is said to give a cleared policy conflict the winning version "0
  when the family is not in the manifest, e.g. demoted to draft before the cut"
  (`store/store.go`, twice). There is no such case: saving a draft demotes
  nothing, an active version is only replaced by the next one, and the refused
  version was active, so its family is in every later candidate.
  `ClearedByItsRelease` says, and `ClearedByItsReleaseAlways` proves, that the
  winner is the version in the manifest; the branch that leaves 0 in
  `winning_version` is dead.
- `validateIdent` "enforces the path-safe identifier shape required for any
  collection or family id that will land in a tar entry or filesystem path",
  and has no limit of length. A family whose `<id>.md` is longer than a file
  name may be is released, and every host refuses each release from then on,
  since a family is in all later releases. `ServedIsInstalled` has to except
  releases with such a name (`NamesTaken`); without the exception it is false
  (a served manifest with the family `"long"` of `MCFamily` fails).

Hazards no property covers: two passes on one home may go on rebuilding, each
finding the marker the other has truncated (how far back they can take the
corpus is `FallsBackNoFurther`); directories of old releases are never removed;
a resolution that keeps the current version names whatever is current when it
arrives; two runs of the adapter at once; a merge of a family without versions
supersedes a first version that was saved meanwhile. That no helper of the
store leaves its transaction, which with one connection would wait for itself,
is taken for granted: every operation is one action.

## Proofs

`KnowledgeStoreProofs` proves, for all values of the constants that satisfy the
assumptions of `KnowledgeStore`:

- `TypeCorrect`: `TypeOK` always holds.
- `ReleaseInvariant`: `ReleaseInv` always holds, and from it
  `ActiveSupersedesAlways`, `ReleaseClosedAlways`, `ReleasesMoveForwardAlways`,
  `ArchiveMatchesHashAlways`.
- `ActiveStaysActiveAlways`: no step takes a family's active version away.
- `StoreImplementsReleaseLog`: every behaviour of the store is one of
  `ReleaseLog` under the archives it serves.

The assumptions are that kernel families are families, that `Rank` orders
families, that bounds are numbers, that `None` is no version, family or save,
and that payloads are what `validateDocSave` lets through.

The argument. A cut looks at the documents only, never at earlier releases, so
`ReleasesMoveForward` is not inductive. What ties the two is
`ReleasedStillActive`: every document in any release is a version of its family
that exists, and the family has an active version at that number or a later
one. A save keeps it because it demotes only when it inserts an active version
itself; a cut keeps it because its candidate is exactly the active versions.
`ActiveSupersedes` is needed beside it, so that "the active version" is one,
and that a `supersedes` link, whose target the lint found superseded, has its
successor in the release. The abstract log then follows: the archive of a new
release has the paths of the one before, since each of its families is still
active.

Its second half proves, under the same assumptions, that `RegisterInv` always
holds, and from it and `ReleaseInv` every property of the register:
`OneOpenConflictAlways`, `EvidenceSoundAlways`, `WinnerNotOlderAlways`,
`ClearedByItsReleaseAlways`, and the action properties `HistoryKeptAlways` and
`AttemptsGuardEvidenceAlways`.

The argument. Each record is looked at by itself: `Evidence` says what it shows
of the versions and `Outcome` what its resolution says of versions and
releases; both survive saves and cuts, since a family only grows and a
published version never becomes a draft (`RowKept`). An operation opens one
record, rewrites an open one, or clears the policy ones, so a step is a lemma
about one record (`InsertKeeps`, `RewriteKeeps`). Three things have to be said
beyond the properties. A claim is filed under the lesser member of its pair, so
that two open claims on one pair collide on one family. A claim's base is a
version that exists, so that the current version may win. An open record names
no release, so that resolving it by hand does not pretend a release did.
`ClearedByItsRelease` needs `ReleaseInv` too: the refused version was active,
and its family still is when the cut comes.

The first part of `ServingProofs` proves, for every set of hosts, tokens and
requests under way (the assumptions only keep hosts, tokens, the operator and
`None` apart):

- `TokenInvariantAlways`: `TokenInvariant` always holds.
- `SpeaksForItselfAlways`: with authentication on, no request but the
  operator's writes the row of a host, or clears its flag, unless its token was
  drawn for that host.

The argument. A request is served by what its authentication found, not by the
table at that moment, so "a token that was ended is refused" says too little to
be inductive. `TableIsTrue` says what the table is in terms of history: each
row is a token under the host it was drawn for and not ended, and each token
drawn and not ended has its row. `RequestsAreOwned` carries this over the gap:
a principal that was established stays the host its token was drawn for, though
the token be replaced meanwhile, and a request sent after that has no
principal. `SpeaksForItself` follows from both, as a heartbeat writes the row
of its principal only.

`SubscriberProofs` proves, for every set of documents and bodies and every
bound (the assumptions are that bounds are numbers and that `None` is no
directory and no release):

- for any number of processes on one home, `TypeCorrect`, `FlipIsFreshAlways`,
  `ShownPublishedAlways` (what agents are shown is a published release),
  `FallsBackNoFurtherAlways` (a pass that others have overtaken brings back
  nothing older than what the agents read when it began) and
  `NoClearWithoutRebuildAlways`;
- for one (`Alone`), `MarkerNotAheadAlways`, `CurrentIsTrueAlways`,
  `SubscriberImplementsDelivery` and `NothingDisappears` (a document the agents
  could read once they can read ever after).

The argument. `PassInv` says what a pass under way holds: a published release
(`HoldsPublished`), beyond its verification the bytes of that release
(`HoldsVerified`), and before its flip a directory with these bytes that no
other pass will flip to and no agent reads (`OwnsDirectory`). The last part is
what `FlipIsFresh` needs beside two processes and agents that write: names of
directories are taken once, and agents write only where the corpus points.
`AckInv` says that while a rebuild is owed nothing acknowledges one: no
heartbeat on the wire, no report, no pass between flip and report. `HostInv`
orders what is known of releases: marker, reports, heartbeats on the wire and
the server's row are no newer than what is shown, and that no newer than what
the pass under way holds. Its step needs `Alone`: a second pass that holds an
older release is exactly what breaks it. What remains without `Alone` is
`BeganBehind`: a pass looks at the corpus before it fetches, and the corpus
shows what is published, so what it fetches is no older. `NothingDisappears`
combines the order of `HostInv` with `PathsGrow`: a release leaves no document
of an earlier one out.

The second part of `ServingProofs` proves `StartsSafely` (`StartInvariant`) for
any number of processes with any flags, killed at any step or out of disk
(`Bounds`: bounds are numbers, and `None` is no content of a file), and of the
session, for every set of tokens and requests (`NoneIsNoToken`: the sentinel is
no token and no request), `SigningOutStands` (`TabInvariant`) and
`RefusedTokenIsNoFailure` (`RefusalIsNotFailure`).

The argument. `StartInvariant` speaks of processes that serve;
`ReadyForItsStep` says what one has that is still on its way there. Two that
found no file are kept apart by `O_EXCL`: `WritersApart` gives the file to at
most one that fills it, `FilledOnce` says that nobody writes it again, so
`ReportedIsWhole` can say that what a person was told is in it as a whole. Of
the session, `TabInvariant` lacks the reason why a list without a token does
not last: the request that will be refused is on its way (`RefusalOnItsWay`),
since a server with a token answers none without one (`NoneIsRefused`), and an
operator who waits has nothing beside a login (`LoginAlone`).

`ConflictViewProofs` proves, for every set of records and requests and any
number of versions and attempts (`Bounds`: there is at least one of each, and
`None` is no form), `ResolvesWithoutLeaks` (`MergeInvariant`) and
`ResolvesAsSeen` (`ResolvedAsSeen`).

The argument. `OneAtATime` is what the operator who waits adds: no two
requests under way. Then a handler that goes on finds the page as it left it
(`CallsFit`), the form is that of the record before him and can be saved over a
version only if there is one (`FormFits`, `KeepsVersions`), and a record is
resolved with a save once because that save has closed it (`ClosedBySave`).
`NoLeak`, which `View_leak` refutes, is part of `MergeInvariant` for this
operator; the proof shows that its violations come from overlapping handlers
alone.

`EditorTabProofs` proves, for every set of documents and requests and any
number of versions (`NoneIsApart`: the sentinel is no record of the page),
`EditorStaysSound` (`EditorInvariant`), `SavesOverWhatWasShown`
(`SavesWhatWasShown`) and `NeverRacesItself` (`NoSelfRace`), for an operator
who clicks at any time.

The argument. Many requests may be under way, but of those of one kind only
one is *in hand*: awaited, and the page still what it was when it was sent
(`OneInHand`; `fresh` is the identity test of the code). What is in hand fits
the form and the view (`CallsFit`, `FormFits`, `ViewFits`, `PaneFits`). A
locked editor has it, or its Reload button, or its handler has died of an
answer cut short, and the same is true of a save button that is dead
(`LockedByCutOnly`): `NeverStuck` itself does not hold, which is what
`Editor_locked` shows. A request that is not in hand changes nothing when it is
answered.

`PublishTabProofs` proves of `PublishTab`, with no assumption on its constants,
`ReviewsWhatBelongsTogether` (`PublishInvariant`), `CutsWhatWasShown`
(`CutWasShown`), `CutsWhatWasReviewed` (`CutAsReviewed`) and
`WaitingKeepsCutDisabled`: what `Publish_overlap` refutes holds for an operator
who waits. A cut names the hash of the candidate that the pane showed
(`CandidateShown`, `CallsFit`), and the server takes no other. And of
`manifestDiff`, with none either and for manifests of any size,
`ListTellsWhatHostsGet` (`TellsWhatHostsGet`): the lists are at every iteration
what a definition without iteration says of the paths that were visited
(`Sorted`).

Of `LineDiff` it proves `DiffsAreRight` (`DiffInvariant`) for texts of any
length, from `LineBounds` (the bound on it is a number). The table of
`lineDiff` is defined by recursion, so it has to be shown that it exists and
holds numbers (`TableExists`, `TableFacts`); then that it grows by at most one
from a line to the next (`TableGrows`) and that no common subsequence of the
first lines of both texts is longer than their entry (`CommonBound`). The walk
is invariant in three things: the rows show both texts from where it is
(`BothShown`), the lines it has matched and those the table still promises are
together as many as at the start (`MostMatched`), and behind a deletion the
table forbids an addition (`NoAddNext`), for otherwise the walk would have
turned the other way.

`HostFilesProofs` proves of

- `FleetPage` `NoHostLooksBetter` (`PageInvariant`) and `TableNeverGoesBack`
  (`TableMovesForward`), for any number of hosts, requests and releases, any
  time and tolerance (`FleetBounds`: numbers, and `None` is no record). The
  rows in an answer are those of a time no later than it says (`RowsFit`,
  `AnswersFit`), at most one answer is fresh (`OneFresh`), and what is shown
  was one (`ShownFits`).
- `ManagedBlock` `UserLinesStay` (`BlockInvariant`), for every set of kernels
  and of user lines (`LinesApart`: kernels are sequences of lines, and the
  markers, the user's lines and those of kernels are told apart). A file
  *holds* a kernel when it has lines that are no markers around one block of
  that kernel, or around none; and the lines are what the user wrote, unless a
  run was killed while it wrote or the user saved while it was at work (`Holds`,
  `FileHolds`). What `awk` copies is
  then what the user wrote (`CopyHolds`), and what is written and what is left
  make the copy with the block of an accepted kernel (`KernelWhole`,
  `WriteLeft`). That `awk` copies what is outside the block, and no more, is
  proved line by line (`KeptFold`, `Skips`).
- `Materialize` `TreesAreManifests` (`TreeInvariant`), for any names, bodies
  and archives (`PathsFit`: names are sequences with an element, neither a
  collection nor an identifier with `.md` is `""`, `"."` or `".."`, the bound
  on documents is a number, and the directory of the release has no name that
  is too long). `Clean` is proved to leave no `..` but at the start
  (`CleanPath`), so a name that is not refused leads below the directory
  (`TargetFits`). Everything is in a directory (`Rooted`), every file is an
  entry that was let through (`OnlySeen`), and what was hashed is stored
  (`Hashed`). That no served release whose names the host takes (`NamesTaken`)
  is refused needs what a served tree looks like (`ServedSoFar`): directories
  of two levels with files in the second, so that no file stands where a
  directory is needed.

The assumptions that are named here are satisfied by the instances of the runs.

**Induction over data.** The induction theorems of the library take an operator
as a parameter, which the provers cannot instantiate. Where a proof needs
induction all the same it takes a set: a set of numbers that is not empty has a
least element (`LeastNumber`, from the well-foundedness of `<` on the naturals),
and a set that contains 0 and follows itself is everything up to a bound
(`Induction`). Folds are expanded to the function they choose, whose existence
is proved that way (`FoldExists`), and so is the table of `LineDiff`. These
lemmas are in `DataInduction`.

**Only model-checked.** Liveness, since the prover has no rule for fairness or
`ENABLED`: `Converges`, `RequestAnswered` and `ResyncRepairs`. Every invariant
and every action property of the passing runs has a theorem.

## Plan

Every hazard of the list has a property, and every invariant and action
property of the passing runs a theorem. What could follow: one specification of
the store and its hosts together. The step from one to the other is
`ServesReleaseLog` today: the store is proved to implement the log that
`Subscriber` starts from, so `SubscriberImplementsDelivery` and
`NothingDisappears` hold of the releases of the store. And what the code lacks:
a lock on the home would extend the theorems that assume `Alone` to several
processes.

## Not modelled

TLS, static assets, opening the database and the HTTP server itself
(configuration and I/O); logging, error texts and HTTP status codes beyond what
a handler branches on; the protocol version header: what it refuses is a step
that fails (`StepFails`) or a heartbeat that is lost (`LoseHeartbeat`);
filters, tables and the formatting helpers of the page; the adapters that link
or print the kernel and keep nothing; templates and documents. SQLite is taken
to commit a transaction as a whole or not at all, and a read to see one state.

## Running

    tlc -config Store.cfg MCKnowledgeStore
    tlapm KnowledgeStoreProofs.tla
    tlapm SubscriberProofs.tla
    tlapm ServingProofs.tla
    tlapm DataInduction.tla
    tlapm HostFilesProofs.tla
    tlapm PublishTabProofs.tla
    tlapm ConflictViewProofs.tla
    tlapm EditorTabProofs.tla
