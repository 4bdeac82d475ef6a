------------------------------- MODULE ScoreInk -------------------------------
(***************************************************************************)
(* The reader's ink in the cloud composition: ScoreBloc's handlers for     *)
(* drawing, erasing and undoing (apps/duet/lib/features/score), running on *)
(* FirestoreAnnotationRepository (apps/duet/lib/data).  The bloc registers *)
(* its handlers with no transformer, so handlers of several events are in  *)
(* flight at once and interleave at their awaits; a step is what happens   *)
(* between two awaits, and each Firestore transaction is one step.         *)
(*                                                                         *)
(* The session is open on one piece and in draw mode.  The layer document  *)
(* is the one of the person signed in, who may be at work on a second      *)
(* device too.  A stroke is its id; ids are fresh (_nextStrokeId).         *)
(***************************************************************************)
EXTENDS Naturals, FiniteSets, Sequences, SequencesExt

CONSTANTS
    Strokes,    \* the strokes that can be drawn: bounds the drawing
    Handlers,   \* slots for handlers in flight: bounds the concurrency
    Elsewhere   \* whether the person also draws on a second device

ASSUME InkAssumption == Elsewhere \in BOOLEAN /\ IsFiniteSet(Handlers)

VARIABLES
    layer,      \* the document layers/{uid}: its strokes and rev; rev 0: absent
    onPiece,    \* whether the person still is on the piece
    shown,      \* the own layer as the bloc last got it from the stream
    undoStack,  \* ScoreState.undoStack
    calls,      \* calls[h]: the handler in slot h
    drawn,      \* the stroke ids given out in this session
    added,      \* history: strokes whose addStroke has committed
    erased,     \* history: strokes whose eraseStroke has committed
    overlapped  \* history: two handlers were in flight at once, or the other
                \* device erased a stroke

vars == <<layer, onPiece, shown, undoStack, calls, drawn, added, erased, overlapped>>

Idle == [op |-> "none"]
Call == [op : {"add", "erase", "undo"}, stroke : Strokes, pc : {"locate", "tx", "done"}]
Layer == [strokes : SUBSET Strokes, rev : Nat]

Quiet == \A h \in Handlers : calls[h] = Idle
At(h, step) == calls[h] # Idle /\ calls[h].pc = step
Goto(h, step) == calls' = [calls EXCEPT ![h].pc = step]
Finish(h) == calls' = [calls EXCEPT ![h] = Idle]

\* The stack filtered of s.  Its ids are distinct, so that the filter takes out
\* one place at most.
Without(stack, s) ==
    IF Contains(stack, s)
      THEN RemoveAt(stack, CHOOSE i \in DOMAIN stack : stack[i] = s)
      ELSE stack

Init ==
    /\ layer = [strokes |-> {}, rev |-> 0]
    /\ onPiece = TRUE
    /\ shown = {}
    /\ undoStack = <<>>
    /\ calls = [h \in Handlers |-> Idle]
    /\ drawn = {}
    /\ added = {}
    /\ erased = {}
    /\ overlapped = FALSE

-----------------------------------------------------------------------------
(* The repository's transactions on the layer document.                    *)

\* The document is set with the new strokes and the next rev.
WriteLayer(strokes) == layer' = [strokes |-> strokes, rev |-> layer.rev + 1]

\* addStroke: the stroke is appended, or the document created with it.  The
\* rules let only a participant write.
AddStroke(s) ==
    /\ onPiece
    /\ WriteLayer(layer.strokes \union {s})
    /\ added' = added \union {s}
    /\ UNCHANGED erased

\* Mutant: the layer is written back as it is shown, not as it is read.
MutantEraseFromShown(s) ==
    /\ \/ layer.rev > 0 /\ onPiece /\ WriteLayer(shown \ {s})
       \/ layer.rev = 0 /\ UNCHANGED layer
    /\ erased' = erased \union {s}
    /\ UNCHANGED added

\* The transaction of eraseStroke: the strokes but one are written back; a
\* document that is gone is left so, and the call succeeds.
EraseStroke(s) ==
    /\ \/ layer.rev > 0 /\ onPiece /\ WriteLayer(layer.strokes \ {s})
       \/ layer.rev = 0 /\ UNCHANGED layer
    /\ erased' = erased \union {s}
    /\ UNCHANGED added

-----------------------------------------------------------------------------
(* ScoreBloc.                                                              *)

\* _onStrokeCompleted pushes the stroke and calls addStroke.
StrokeCompleted(h, s) ==
    /\ calls[h] = Idle
    /\ s \notin drawn /\ s \notin added
    /\ drawn' = drawn \union {s}
    /\ undoStack' = Append(undoStack, s)
    /\ calls' = [calls EXCEPT ![h] = [op |-> "add", stroke |-> s, pc |-> "tx"]]
    /\ UNCHANGED <<layer, onPiece, shown, added, erased>>

\* _onStrokeErased: only a stroke of the own layer, as shown, is erased.
StrokeErased(h, s) ==
    /\ calls[h] = Idle
    /\ s \in shown
    /\ calls' = [calls EXCEPT ![h] = [op |-> "erase", stroke |-> s, pc |-> "locate"]]
    /\ UNCHANGED <<layer, onPiece, shown, undoStack, drawn, added, erased>>

\* _onUndoRequested takes the last stroke of the stack, without popping it yet.
UndoRequested(h) ==
    /\ calls[h] = Idle
    /\ undoStack # <<>>
    /\ calls' = [calls EXCEPT ![h] = [op |-> "undo", stroke |-> Last(undoStack), pc |-> "locate"]]
    /\ UNCHANGED <<layer, onPiece, shown, undoStack, drawn, added, erased>>

\* addStroke commits; the handler has nothing left to do.
AddCommits(h) ==
    /\ calls[h].op = "add"
    /\ AddStroke(calls[h].stroke)
    /\ Finish(h)
    /\ UNCHANGED <<onPiece, shown, undoStack, drawn>>

\* eraseStroke looks the stroke up; an unknown one fails the call.
Locate(h) ==
    /\ At(h, "locate")
    /\ IF calls[h].stroke \in layer.strokes THEN Goto(h, "tx") ELSE Finish(h)
    /\ UNCHANGED <<layer, onPiece, shown, undoStack, drawn, added, erased>>

EraseCommits(h) ==
    /\ At(h, "tx") /\ calls[h].op # "add"
    /\ EraseStroke(calls[h].stroke)
    /\ Goto(h, "done")
    /\ UNCHANGED <<onPiece, shown, undoStack, drawn>>

\* Back in _onStrokeErased: the stroke leaves the stack, wherever it is.
EraseReturns(h) ==
    /\ At(h, "done") /\ calls[h].op = "erase"
    /\ undoStack' = Without(undoStack, calls[h].stroke)
    /\ Finish(h)
    /\ UNCHANGED <<layer, onPiece, shown, drawn, added, erased>>

\* Back in _onUndoRequested: whatever is last now leaves the stack.  On an
\* empty stack sublist throws and the state stays.
UndoReturns(h) ==
    /\ At(h, "done") /\ calls[h].op = "undo"
    /\ undoStack' = IF undoStack = <<>> THEN undoStack ELSE Front(undoStack)
    /\ Finish(h)
    /\ UNCHANGED <<layer, onPiece, shown, drawn, added, erased>>

\* Mutant: a stroke that could not be added stays on the stack.
MutantFailKeepsStack(h) ==
    /\ At(h, "locate") \/ At(h, "tx")
    /\ Finish(h)
    /\ UNCHANGED <<layer, onPiece, shown, undoStack, drawn, added, erased>>

\* Mutant: the failed call leaves its slot holding a step it does not have.
MutantFailKeepsCall(h) ==
    /\ At(h, "locate") \/ At(h, "tx")
    /\ Goto(h, "failed")
    /\ UNCHANGED <<layer, onPiece, shown, undoStack, drawn, added, erased>>

\* The repository call fails (offline, denied): a stroke that was not added
\* leaves the stack, a stroke that was not erased stays on it.
CallFails(h) ==
    /\ At(h, "locate") \/ At(h, "tx")
    /\ undoStack' = IF calls[h].op = "add" THEN Without(undoStack, calls[h].stroke)
                                           ELSE undoStack
    /\ Finish(h)
    /\ UNCHANGED <<layer, onPiece, shown, drawn, added, erased>>

\* _onAnnotationsUpdated: the stream of the layer documents catches up.
AnnotationsUpdated ==
    /\ shown # layer.strokes
    /\ shown' = layer.strokes
    /\ UNCHANGED <<layer, onPiece, undoStack, calls, drawn, added, erased>>

-----------------------------------------------------------------------------
(* The rest of the world.                                                  *)

\* The same person draws or erases on another device: the same transactions.
DrawnElsewhere(s) ==
    /\ Elsewhere
    /\ s \notin drawn /\ s \notin added
    /\ AddStroke(s)
    /\ UNCHANGED <<onPiece, shown, undoStack, calls, drawn>>

ErasedElsewhere(s) ==
    /\ Elsewhere
    /\ s \in layer.strokes
    /\ EraseStroke(s)
    /\ UNCHANGED <<onPiece, shown, undoStack, calls, drawn>>

\* The person leaves the piece from another device: off the roster first, then
\* the layer document is dropped (leavePiece).
TakenOffPiece ==
    /\ Elsewhere
    /\ onPiece
    /\ onPiece' = FALSE
    /\ UNCHANGED <<layer, shown, undoStack, calls, drawn, added, erased>>

LayerDropped ==
    /\ ~onPiece
    /\ layer.rev > 0
    /\ layer' = [strokes |-> {}, rev |-> 0]
    /\ UNCHANGED <<onPiece, shown, undoStack, calls, drawn, added, erased>>

Handle(h) ==
    \/ \E s \in Strokes : StrokeCompleted(h, s) \/ StrokeErased(h, s)
    \/ UndoRequested(h)
    \/ AddCommits(h)
    \/ Locate(h) \/ EraseCommits(h) \/ EraseReturns(h) \/ UndoReturns(h)
    \/ CallFails(h)

Step ==
    \/ \E h \in Handlers : Handle(h)
    \/ AnnotationsUpdated
    \/ \E s \in Strokes : DrawnElsewhere(s) \/ ErasedElsewhere(s)
    \/ TakenOffPiece
    \/ LayerDropped

\* The handlers in flight.
Busy == {h \in Handlers : calls[h] # Idle}

Next ==
    /\ Step
    /\ overlapped' = \/ overlapped
                     \/ Cardinality(Busy') > 1
                     \/ erased' # erased /\ UNCHANGED calls

Spec == Init /\ [][Next]_vars

-----------------------------------------------------------------------------
(* Properties.                                                             *)

\* The layer, the stack and the handlers in flight keep their shape.
TypeOK ==
    /\ layer \in Layer
    /\ onPiece \in BOOLEAN
    /\ shown \in SUBSET Strokes
    /\ undoStack \in Seq(Strokes)
    /\ calls \in [Handlers -> {Idle} \union Call]
    /\ drawn \in SUBSET Strokes
    /\ added \in SUBSET Strokes
    /\ erased \in SUBSET Strokes
    /\ overlapped \in BOOLEAN

\* No stroke is lost and none comes back: while the person is on the piece the
\* layer holds the strokes whose addStroke went through and that nobody has
\* erased, whatever drawings, erasures and undos of two devices interleave.
InkSurvives == onPiece => layer.strokes = added \ erased

\* With no handler in flight the undo stack holds the strokes of the session
\* that are in the layer, each of them once: an undo has something to erase,
\* and everything drawn and still there can be undone.
UndoStackIsInk ==
    Quiet /\ onPiece =>
        /\ ToSet(undoStack) = layer.strokes \intersect drawn
        /\ IsInjective(undoStack)

\* A session whose handlers never overlapped keeps that promise: whatever was
\* drawn, erased and undone, on whatever failed in between, on however late the
\* stream showed it, and beside drawings of another device.
UndoStackInOrder == ~overlapped => UndoStackIsInk

=============================================================================
