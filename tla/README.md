# Duet and Tandem: models and proofs

TLA+ models of the repository's own logic, checked with TLC and, where it
matters most, proved with TLAPS for every value of the constants. The subject is
the `apps/duet` app (sheet music that an owner shares with collaborators, who
draw ink and record audio notes on it) with its Cloud Functions and security
rules, and the shared grocery list of the Tandem app. Paths below are relative
to the repository's root.

## The system

| Part | State | Operations | What is hard |
| --- | --- | --- | --- |
| Membership functions, `apps/duet/functions/src` (`sendInvite`, `acceptInvite`, `leavePiece`, `pieceCascade`) | `pieces/{id}` with `participantIds` and `collaborators`, `userInbox/{uid}/messages`, `layers/{uid}` | callables, each a sequence of awaited reads and writes; a deletion trigger | several calls in flight, repeated calls, calls that die between two writes, values read before an await and written after it |
| Security rules, `apps/duet/firestore.rules`, `storage.rules` | none: predicates over documents | allow and deny client writes | they must agree with what the client writes and what the functions left behind |
| `FirestorePieceRepository`, `FirebasePieceBinaryStore`, `apps/duet/lib/data` | the piece document; `base.pdf` in Storage; the mark `basePdfUploaded` | import, rename, delete, leave, remove, upload and stamp | whole-document sets built from an entity that knows only some fields; deletion during an upload |
| Account deletion, `deleteAccount.ts` | everything of one uid | a long sequence of purges, repeated when one fails | joins, notes and messages that arrive between its steps |
| Email lookup, `lookupEmail.ts` | `rateLimits/{uid}` | one transaction per call | the window's boundary, calls that overlap |
| Invite sheet, `apps/duet/lib/features/pairing` (`invite_bloc.dart`) | status, address, recipient, link | keystrokes with lookups, send, link | handlers run concurrently, answers come out of order |
| Invite links, `deep_link_invite_service.dart` | tokens in preferences | create, accept | token lists read before an await |
| Activity and watermarks, `pieceActivity.ts`, `markOpened`, `LibraryState.isUnread` | `updatedAt`, `reads/{uid}` | triggers, open, rename | stamps taken at one moment and written blindly at another; triggers late, repeated or lost |
| Audio upload path, `cloud_audio_asset_store.dart`, `audio_upload_queue.dart` | files, a persisted queue with attempt counts, the `_draining` flag | put, delete, enqueue, drain | enqueues that race a drain, restarts in the middle of one, retry bound, who starts the next drain |
| Base PDF cache, `default_pdf_binary_cache.dart` | files by checksum, last-opened map | pathFor: hit, download, verify, touch, evict | an open during another's download, interrupted downloads, eviction |
| Reader, `features/score/src/bloc/score_bloc.dart` on `firestore_annotation_repository.dart` | the own layer document with `rev`, the undo stack | draw, erase, undo, stream updates | bloc handlers run concurrently; the undo stack is used before and after an await; two devices on one layer |
| Review sync, `apps/duet/lib/review_sync` on the local repositories | slices, audio assets, `base_shared`, `last_applied`, bundles | export, import | bundles out of order or repeated, imports that overlap, a crash between two writes |
| Audio notes: the annotation repository, `gcTombstones.ts` | `notes/{id}` with tombstones | add, delete, sweep, replace a slice | denied batch deletes |
| Local repositories, `apps/duet/lib/domain/src/data` | on-device copies of the same | the same interface | little: their awaits hardly yield |
| Migration, `local_piece_migrator.dart`, `migration_prompt.dart` | local pieces, done flag | migrate | flag set before the work |
| Library and import, `apps/duet/lib/features/library` | bloc state | import with cancel | cancel racing the upload |
| Tandem list, `packages/features/feature_grocery_list` | item documents | add, status, flag, react, delete, restore, clear | check then write by two phones, batches on an old query, transactions that conflict |
| Tandem presence, `firebase_presence_repository.dart` | `presence/{list}/{uid}`, the disconnect handler | enter, leave | the connection drops between any two requests |
| Widgets, packages under `packages/core` and `packages/services`, app template, showcase, tools | presentation, adapters | | not modelled |
| `apps/tandem/ios/Pods` | | | vendored third-party code, not modelled |

How they interact: the app calls the functions (`httpsCallable`), writes
documents under the rules, and listens to document streams; the functions use
the Admin SDK, which bypasses the rules; the deletion of a piece document
triggers `onPieceDeleted`, and the write of a layer or a note triggers
`pieceActivity`. `PROJECT.json` lists the components with their status, and
under `hazards` what is hard to test in them, line by line.

## Modules

| Module | Models | State and actions |
| --- | --- | --- |
| `PieceRules` | the rules of the piece document and of layers | operators, one per `allow` |
| `PieceAccess` | abstract: what access to a piece means | invited people join and leave one at a time, the owner closes the piece |
| `PieceMembership` | the four functions, layer writes and piece deletion | one step per await: `SendInviteCheck`, `SendInviteLookup`, `SendInviteWrite`; `AcceptInviteRead`, `AcceptInviteJoin`, `AcceptInviteConsume`; `LeavePieceRead`, `LeavePieceUpdate`, `LeavePieceDrop`, and `LeavePieceGone` for a piece that is not there; `OnPieceDeleted`; `CallDies` at any step |
| `PieceClient` | the app's own writes and the base PDF upload, composed with `PieceMembership` | `RenamePiece`, `LeaveFromApp`, `RemoveCollaborator` (all through `Mutate`), `UploadBasePdf`, `MarkUploaded`, `UploadDies` |
| `AccountPurge` | `deleteAccount`, composed with `PieceMembership` | the purges in their order (`PurgeDirectory` to `PurgeAuth`), `PurgeDies` after any; deletes of many documents may stop on the way |
| `LookupRateLimit` | `lookupEmail` and `enforceRateLimit` for one caller | request, transaction read, commit in a new or the current window, refusal, retry; the clock |
| `InviteLookup` | `InviteBloc` over `LookupRateLimit` and `sendInvite` | one handler per event in flight, its start and its answer; people join or vanish meanwhile |
| `UnreadActivity` | `bumpPieceActivity`, `markOpened`, `isUnread` | a stamp is taken, by the server's clock or a device's, in one step and written in another |
| `AudioUploads` | put, enqueue, drain, delete, restart | one step per await of `put`, `drain` and `delete` |
| `PdfBinaryCache` | `pathFor` | one step per await, several opens, crashes |
| `ScoreInk` | ScoreBloc's ink handlers on the layer transactions | handlers in flight, failures, a second device, leaving from it |
| `ReviewSync` | `exportBundle` and `importBundle` on two devices | one step per await that matters, several exports and imports, crashes |
| `GroceryList` | `FirestoreGroceryRepository` | queries, batches and transactions in two steps, blind updates in one |
| `ShoppingPresence` | `FirebasePresenceRepository` | the requests of `enter` and `leave`, each carried out in one step and answered in another; kills, dropped sockets with writes sent again, the server's handler |
| `PieceProofs` | theorems about `PieceMembership`, `PieceClient` and `AccountPurge` | |
| `InviteLookupProofs` | theorems about `LookupRateLimit` and `InviteLookup` | |
| `TandemProofs` | theorems about `GroceryList` and `ShoppingPresence` | |
| other `...Proofs` | theorems about the module of that name | |
| `MC...` | instances and symmetry sets for TLC; `MCTandem` explores the two Tandem modules side by side. `AudioUploads` is checked as it stands | |

What stands between two awaits of a function or of a Dart handler is one step,
because nothing else of that process runs in between. A Firestore transaction is
one step where nothing but its commit matters, because it commits atomically or
not at all; where the retry matters (`LookupRateLimit`, `GroceryList`) its read
and its commit are two steps and the commit needs the document it read. The
variables called history in a module are not in the code: they record what
happened for a property to speak of.

Abstractions. Names, titles, e-mail addresses, points and file contents are data
no property is about. The membership arrays are sets: the update rule compares
lists, so in the code some writes are denied that the model allows, those that
change only the order. A file of the cache counts one unit of its cap, and two
opens of a file may fall on one tick of the clock that orders them for eviction.
Strokes are ids, which the code makes fresh; the undo stack therefore holds an
id once, and filtering it takes out one place at most (`Without`). The session
of `ScoreInk` is open on one piece and in draw mode. In `UnreadActivity` no two
stamps of the server are equal, and a device's clock is off by up to `Skew`,
either way and differently each time. The slice of `ReviewSync` is the author's
audio notes, the assets of one import are one batch, and a bundle takes any
stamp, because the wall clock it comes from may stand still or be set back; it
carries the base PDF if none before it did and the file is there. In
`AccountPurge` there is one piece, and device tokens, read watermarks and audio
objects are left out. A flag of `GroceryList` is set or not, without its kind,
and quantities, notes and aisles are left out; a name is whether it starts with
a capital, and a spelling of the rest. `ShoppingPresence` assumes of the
Realtime Database client what its documentation says: requests are carried out
in order, writes not yet answered are sent again on the next connection, and
requests about disconnect handlers die with theirs. In `InviteLookup` the sheet
is opened once and its owner's tier does not change.

Left out of the membership model: `firestore.rules:65` lets a recipient update
their own inbox message, whose `pieceId` and `fromUid` `acceptInvite` trusts.
The models have no client write of a message but reading it.

## Runs

| Run | Shows |
| --- | --- |
| `piece_client` | nobody but the owner and invited people is ever on the piece or has ink on it (`OnlyInvitedEverOnPiece`), a 'left' answer is kept, whoever gave it (`LeftMeansGone`), the owner stays (`OwnerKeepsPiece`), the functions implement `PieceAccess` (`AccessSpec`); the app's writes move no membership (`MembershipUnaffected`: the composed system implements `PieceMembership`), and a mark is never wrong (`MarkMeansStored`) |
| `roster_diverges` | **violated**: `collaborators` and `participantIds` stop agreeing after a leave that overlaps a join |
| `account_purge` | a deleted account leaves nothing behind (`PurgedIsGone`), however often the purge died and was repeated, but for what its own devices or an inviter wrote meanwhile (`stray`); its entry in `collaborators`, with name and address, is gone but for a `leavePiece` of another collaborator that writes back the list it read before (`relisted`); access still follows `PieceAccess` |
| `audio_uploads` | a racing enqueue survives (`NothingVanishes`), no early give-up (`GiveUpIsEarned`), no spent task in the queue (`QueuedHasAttempts`), every drain ends (`DrainEnds`, under fairness) |
| `audio_never_drained` | **violated**: a recording enqueued during a drain, or left over by one, waits for the next recording |
| `pdf_cache` | the cache stays under its cap but for what opens in flight bring and what was cut short since the last eviction (`CapHolds`); a path returned is a verified file unless opens of that piece overlapped, were cut short or lost the file to an eviction (`ServedIsVerified`) |
| `score_ink` | no stroke is lost or comes back (`InkSurvives`), one handler at a time keeps the undo stack in step with the layer, also when a call fails (`UndoStackInOrder`) |
| `score_undo_races` | **violated**: an undo that overlaps a drawing or another undo pops the wrong stroke |
| `unread_activity` | nobody sees their own edit as unread (`OwnEditIsRead`); with stamps written in order nobody misses an edit stamped more than the clocks' skew after they last looked (`NobodyMissesAnEdit`) |
| `review_sync` | no note loses its audio, whatever overlaps or crashes (`NoDanglingAudio`); undisturbed imports in any order show the bundle with the newest stamp, whatever the clock did (`ShowsNewest`), and bring no deleted note back where stamps tell the order of the snapshots (`NoResurrection`) |
| `invite_lookup` | fewer lookups than twice the limit in any window's length (`UnderTwiceTheLimit`), the sheet's status is true of the address in it (`SheetTellsTheTruth`), an invite goes to somebody who was shown (`InviteGoesToShown`) |
| `tandem` | no reaction is lost (`KeepsReactions`), a name as it is titled is listed once (`OneItemPerName`), whoever is shown as shopping will go unless the connection was lost in mid-call (`NoGhostShopper`) |

Several properties have a condition, kept in a history variable, that names the
one disturbance under which the code does not keep the promise. They are listed
below; the property does not cover that disturbance, and each is a disagreement
the model shows when the condition is dropped.

The findings in `PROJECT.json` quote, for each violated property, the line of
the repository that states it. The disagreements that have no run of their own:

Pieces and membership
- `Accepted` is false for `LeaveFromApp` and `RemoveCollaborator` in every state
  that enables them: the rules deny what the app's leave and remove write
  (`firestore.rules:103-106`), and nothing under `apps/duet/lib` calls the
  `leavePiece` callable that the comment in
  `firestore_piece_repository.dart:278` names.
- `Accepted` is false for `RenamePiece` whenever `RosterConsistent` is: after a
  diverged roster the owner cannot rename the piece any more.
- `Mutate` sets the document whole and so drops `basePdfUploaded`, which nothing
  stamps again.
- `acceptInvite` joins in a transaction that does not look at the message and
  marks it read afterwards, so a duplicate call can join on a consumed invite;
  the comment at `acceptInvite.ts:21` says it "can't be replayed". `AccessSpec`
  does not forbid it: its `Join` is open to anybody who was ever invited.
- `acceptInvite` joins without looking at the collaborator cap, which the
  comment at `acceptInvite.ts:86` defers; two invites sent under the cap take
  the piece past it, in `InviteLookup` as well.
- `leavePiece` answers 'left' when the piece document is gone, while the
  caller's layer may still await the cascade, or stay when the cascade fails.

Account deletion
- What appears after its step is not purged: an invite accepted after the pieces
  were listed, ink or a note of a device whose token is still valid, a message
  sent after the inbox was emptied. Once the Auth user is gone, nobody can call
  the purge again.
- A piece is found through `participantIds`: the notes of somebody who left by
  `leavePiece`, which deletes only their layer, are never purged.
- A `leavePiece` of another collaborator that read the roster before the purge
  puts the purged uid, name and address back into `collaborators` (`relisted`).
- `reads/{uid}` is not purged, and a `DirectoryPublisher` still signed in may
  publish the entry again.

Unread marks
- Triggers that commit out of order, or a rename stamped by a slow device, set
  `updatedAt` back and can hide an edit (`disordered`).
- `markOpened` stamps with the device's clock and the triggers with the
  server's: an edit stamped within the skew after a fast device opened the piece
  is hidden from it. A `markOpened` write that is late, or stamped by a slow
  clock, sets the own watermark back and shows an author their own edit
  (`setBack`).

Audio and cached files
- `UploadFails` gives a recording up after `maxAttempts` drains, with no record
  of it; `docs/duet_cloud_schema.md:331-333` says it is never lost.
- An open during another's download, or after one cut short, takes the
  unverified file for a hit; an open of another piece may evict the file before
  its path is returned (`disturbed` in `PdfBinaryCache`).
- Files of failed transfers and killed apps count towards the cap only at the
  next eviction, which only a completed download starts (`leftover`).

Review bundles (`disturbed` and `unordered` in `ReviewSync`)
- Nothing keeps a second import or export from starting: overlapping imports can
  leave an older slice under a newer `last_applied`, overlapping exports can
  stamp an older snapshot later. So can a wall clock that is set back, and a
  bundle stamped while it stands still is dropped as stale. A crash between the
  replacement and the record lets an older bundle win.
- Only the first bundle exported carries the base PDF: a receiver who gets
  another one first cannot import it.

Invite sheet and lookup
- `lookupEmail.ts` calls its window rolling; it is fixed, so around its boundary
  nearly twice the limit goes through, and no more, which is what
  `UnderTwiceTheLimit` says. Every keystroke is a lookup and spends the budget.
- A lookup that answers while the sheet is sending ends the gate (`crossed`):
  the invite can be sent twice, or the status belong to neither. A link that
  fails restores the status it found, which may be `lookingUp` with no lookup
  left.
- The invite itself goes through the callable `sendInvite`, which checks neither
  the budget nor the collaborator cap.

Tandem
- `grocery_repository.dart:15-17` says that adding a name that exists
  "(case-insensitively)" among live items is a no-op. `addItem` raises the first
  letter only and compares exactly: 'Oat milk' and 'Oat Milk' are both listed.
  `OneItemPerName` is about the titled name.
- Additions of one name that overlap, or an item restored after another of its
  name was added, list a name twice (`doubled`).
- `clearDone` deletes an item that was put back on the list after its query.
- A reaction committed after its flag was cleared shows up on the next flag.
- A shopper is shown for ever although nobody is there (`torn`), which the class
  comment of `firebase_presence_repository.dart` (lines 7-11) rules out: when
  the app is killed between the cancel and the remove of `leave`; when the
  answer to the cancel is lost with the socket, because `leave` then never
  removes; when a socket drops under an unanswered `set`, which is sent again
  after the handler registered for it has run.
- A late handler of an old connection takes away somebody who is back, and after
  a short loss nothing enters again until the next tap.

Bounds. Membership: an owner, two others, two invites, two calls in flight; the
races found need two calls of two people, and two invites let a person join,
leave and join again. Every race known between three calls contains one of two,
because a call holds at most one stale value. Account purge: the owner and two
collaborators, of whom the owner and one (`Purger`) delete their accounts, two
invites, one note and one call in flight: the other collaborator's call can
overlap every step of a purge, and a purge every step of a call. `Bounds` of
`MCAccountPurge` names what else is cut. Audio: three recordings of which one
can be in the drain's snapshot, one in flight and one enqueued meanwhile, two
attempts. Cache: three files over a cap of one, so that an eviction may have to
take two, two opens, two ticks of the clock; one file at most is misserved. Ink:
three strokes, two handlers and the second device. Unread: two edits, five
stamps of the server, device clocks off by one, two opens of one reader on their
way: an edit, a late trigger, an open and a rename fit. Review: one note, three
bundles over three stamps (one fewer once the stamps are out of order, and once
imports were disturbed), two exports and two imports in flight, three batches of
assets. Lookup: two calls in flight, limit and window two, a clock up to six and
five calls let through, so that three windows start and a stretch of twice the
limit can begin inside a window as well as with one. Tandem: two phones, two
items and two spellings of one name, plain or capitalised; one shopper, because
the phones of shoppers share nothing, with four requests under way, which hold
an `enter` and a `leave` in mid-call; the list is explored until a name may have
been doubled. Symmetry is used only in runs of safety properties and over sets
whose members nothing tells apart.

Deadlock is checked in `tandem`, where a phone can always act again. The other
systems may come to rest (piece deleted, no ids, stamps or calls left, nothing
queued).

Fairness, only in `FairSpec` of `AudioUploads`: the event loop runs what is
scheduled (weak fairness of the steps of put and drain), and a started upload
ends, successfully or not, because the Storage client bounds its retries. That
uploads ever succeed is not assumed. No fairness is assumed of people, of
deletes or of restarts.

## Proofs

Every safety property that a run checks is also a theorem, for every value of
the constants: any number of people, calls, handlers, files, items and stamps.
Each component has its inductive invariant; what it adds to the properties is
the reason they hold.

- `PieceProofs`, membership. `CallsJustified` says what a call in flight may
  still rely on although it read it earlier: an accepting caller's message is
  there, and a leaving caller is not the owner and will write back a roster of
  invited people only. Without it a stale write could introduce anyone. From it
  follow `TypeCorrect`, `AccessOnlyByInvite`, `LeavingIsComplete`,
  `OwnerNeverLosesPiece` and the step simulation of `ImplementsAccess`. The only
  assumption is that the owner is one of the users.
- `PieceProofs`, the app's writes. `EditKeepsPiece` and `NoStub` show that every
  write the rules accept from the app leaves the membership as it was, so that
  the composed system implements `PieceMembership` (`ClientKeepsMembership`) and
  its invariant carries over. `MarkIsTrue` needs two facts more: an upload about
  to be stamped has its object while the piece exists, and the cascade runs only
  once it is gone. `ClientTypeCorrect` adds the upload's flags.
- `PieceProofs`, account deletion. `PurgeProgress` says for each user how far
  their purge has come and what it has removed for good: no directory entry once
  the first step is done, no message after the second, every note of theirs
  among those it has found before the slice is deleted, no ink and no note from
  there on; and whoever is out of the piece without having called `leavePiece`
  left nothing on it. `PurgeRoles` keeps the owner's purge, which deletes the
  piece, apart from a collaborator's. All but the directory is claimed only of
  users of whom nothing appeared since the purge began (`stray`), which is what
  `PurgeIsComplete` exempts. `PurgeImplementsAccess` simulates every purge step
  by leaving, closing or nothing. Assumed: no user is called "absent" or
  "deleted", which stand for a note's missing author.
- `AudioUploadsProofs`. The invariant `DrainConsistent` relates the snapshot a
  drain works on to the queue it will reconcile with: what it has still to try,
  is trying or will keep is queued and unsettled. From it follow
  `RacingEnqueueSurvives`, `NoEarlyGiveUp` and `NoExhaustedTask`, for any
  recordings and any `maxAttempts` of at least 1.
- `PdfBinaryCacheProofs`. `Undisturbed` describes the file of a key that nothing
  disturbed, step by step of its only open: none before the download, partial
  during it, verified or corrupt after it, verified from the checksum on, and
  between two opens verified or gone. A step of another key's open can only take
  the file away, which is a disturbance (`OtherKey`). `PathsAreVerified`
  follows. `CacheStaysUnderCap` counts what no open in flight and no interrupted
  transfer accounts for: such a file was there when an eviction last ran, and an
  eviction leaves no more than the cap. Assumed: a finite number of opens in
  flight, so that two of them count as two.
- `ScoreInkProofs`, the layer. A stroke on its way has not been added yet and no
  two handlers add the same one; what is about to be erased has been added. From
  that follows `NoInkLost`, for any number of handlers.
- `ScoreInkProofs`, the undo stack. `StackAhead` says how far the handler in
  flight has come with the stack: a stroke on its way is on it already, an
  erased one still is, and the one an undo has read is the last. `InOrder` adds
  that handlers that never overlapped are alone; `PushedIds`, `PoppedIds` and
  `FilteredIds` say what the stack's operations do to its ids.
  `UndoHoldsInOrder` and `TypeCorrect` follow. Assumed: finitely many handlers
  in flight.
- `UnreadActivityProofs`. The unread mark compares two stamps, so the invariant
  orders stamps. Those of the server are distinct and past, those of a device at
  most `Skew` ahead of the moment its user opened the piece (`Past`,
  `OpenedBefore`); an edit somebody has not seen is later than all of their own
  (`Unseen`). An edit that its reader has not seen and whose stamp is out of
  reach of their clock (`Owed`) is later than their watermark, unless a later
  stamp is committed already (`ReadBefore`, `InOrder`). `NoMarkForOwnEdit` and
  `NobodyMisses` follow for any skew.
- `ReviewSyncProofs`. The audio an import has put is stored and nobody else's to
  delete until its slice is in place (`Held`), and what it deletes is no longer
  the slice's (`Dropping`): that gives `AudioIsThere` whatever overlaps. The
  other two theorems rest on conditions of their own: without `disturbed`, the
  stamp recorded is the slice's except between replacing and recording
  (`Recorded`), which gives `NewestWins` whatever the author's clock did;
  without `unordered`, what was a tombstone in one bundle is one in every later
  bundle (`Buried`). Assumed: finitely many exports and imports in flight, and
  "no batch" is not a batch.
- `InviteLookupProofs`, the budget. The bound counts lookups between two times,
  which no single document knows. The invariant therefore works on the history
  `admitted`: its times are in order (`InOrder`), a transaction that may commit
  has read a time not before the last of them (`Reading`, `Times`), the count of
  the document is the number of calls let through since the window began
  (`Counting`), two calls that began windows are a window apart (`Apart`), and
  one of any `RateLimit` calls in a row began a window (`Often`). Of `2 *
  RateLimit` consecutive calls, two began windows, and `BudgetHolds` follows for
  any limit, window and number of calls.
- `InviteLookupProofs`, the sheet. Its steps on the limiter are the limiter's
  (`SheetUsesLimiter`). `Truthful` says what the handlers in flight know: one
  sends at a time and only while the sheet says so, the account on the screen
  stays the one of the address, and the status a failed send falls back to is
  true. `TruthTold` and `OnlyShownInvited` follow.
- `TandemProofs`, the list. `PhoneInv`: a document a phone has read is as it
  was, or the phone is marked as behind, and then its transaction does not
  commit. `ReactionsSurvive` follows. `OneAdds`: a name under way is no live
  item's and no other phone's, unless it is `doubled`, which gives
  `NamesAreUnique`.
- `TandemProofs`, the presence. `NoGhostShopper` is not inductive: a node may be
  set by a request sent long before, and sent again since. `SetsCovered` adds
  that a set under way has its handler, a remove behind it in the queue, or a
  cancel before it whose answer will send one; `ArmsCovered` says the same of a
  handler whose answer is still to come, so that the set it leads to is covered.
  What a dropped socket leaves of a queue is covered again unless it was `torn`.
  `NobodyHaunts` follows for any number of phones and requests.

Model-checked only: the liveness property `DrainEnds`, which is beyond the
prover, and the three violations, which are counterexamples.

## Not modelled, and the plan

- Invite links (`deep_link_invite_service.dart`, the accept cubit): tokens in
  the preferences of one device. Next to be modelled, as `DeepLinkInvite`.
- `replaceAuthorSlice` and `clearPiece` of the cloud repository: the rules let
  no client delete a note, so a batch with notes in it is denied whole and there
  is no state change to model. `gcTombstones`: one query and one delete per
  document found, of documents nothing writes any more.
- Audio `pathFor`: the shape of `PdfBinaryCache` without the verification.
- Migration: in the cloud composition its first read, of a piece that is not
  there yet, is denied by the read rule, which leaves a failing path only.
- `ImportPieceBloc`, the sync monitor and the inbox bridge: small, each with one
  handler at a time; after the above.
- Nudges, device tokens: one write each, no state the properties relate.
- The members of a grocery list and the in-memory repositories: the same
  operations without the concurrency.
- Widgets, formatting, dependency wiring, the platform recorder and player, and
  the vendored iOS libraries keep no state these properties are about.

Theorems worth proving next: exact conditions for the exemptions, that is, that
each history flag (`disturbed`, `unordered`, `crossed`, `doubled`, `torn`,
`stray`, `relisted`) is raised only by the disturbance it is named after; and
refinements of abstract specifications for the components that have none yet:
the layer of `ScoreInk` as a set with two operations, and the queue of
`AudioUploads` as a set of tasks that are kept or settled.
