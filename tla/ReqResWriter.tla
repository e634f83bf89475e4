---------------------------- MODULE ReqResWriter ----------------------------
(***************************************************************************)
(* The request/response argument writer of src/golang/reqres.go            *)
(* (reqResWriter) together with the collaborators its operations drive:    *)
(*   - the fragmenting writer that cuts the three arguments into fragments *)
(*     (fragmentingWriter; not under src/, modelled from spec.md 4.2),     *)
(*   - the message exchange: its cancellation signal and shutdown(),       *)
(*   - the connection's buffered send channel conn.sendCh.                 *)
(***************************************************************************)
EXTENDS Fragments

CONSTANTS
    FragCap,         \* argument items a fragment's payload has room for
    SendBufferSize   \* capacity of the buffered channel conn.sendCh

ASSUME FragCap \in Nat \ {0} /\ SendBufferSize \in Nat \ {0}

VARIABLES
    state,        \* reqResWriter.state
    err,          \* reqResWriter.err, the failure latch
    shutdowns,    \* number of mex.shutdown() calls made by this writer
    ctxDone,      \* mex.ctx.Done() has been closed (cancel or deadline)
    headerFits,   \* the call's initial message fits into one frame payload
    fwState,      \* fragmentingWriter: where it is in the argument sequence
    fwErr,        \* fragmentingWriter: its own latched error
    curFragment,  \* fragmentingWriter: the fragment under construction
    written,      \* items the caller has written successfully, in order
    sendCh,       \* conn.sendCh
    sent,         \* history: every frame ever handed to conn.sendCh
    returned,     \* the error the caller's last call returned
    acquired      \* frames taken from conn.framePool so far

vars == <<state, err, shutdowns, ctxDone, headerFits, fwState, fwErr,
          curFragment, written, sendCh, sent, returned, acquired>>

-----------------------------------------------------------------------------
(* reqResWriterState, and the errors the writer can see.                    *)
WriterStates == ArgStates

ErrStateMismatch          == "StateMismatch"   \* errReqResWriterStateMismatch
ErrCancelled              == "Cancelled"       \* mex.ctx.Err()
ErrSendBufferFull         == "SendBufferFull"  \* ErrSendBufferFull
ErrCodec                  == "Codec"           \* message.write / wbuf.Err()
ErrAlreadyWritingArgument == "AlreadyWritingArgument"
ErrComplete               == "Complete"
Errors == {ErrStateMismatch, ErrCancelled, ErrSendBufferFull, ErrCodec,
           ErrAlreadyWritingArgument, ErrComplete}

FWStates == {"Start", "WaitingForArgument", "InArgument", "InLastArgument",
             "Complete"}

NoFragment == [present |-> FALSE, frame |-> 0, msgType |-> "Call", items |-> <<>>]

-----------------------------------------------------------------------------
(* newFragment: a frame is taken from the pool and gets the message type  *)
(* chosen by initial.                                                      *)
(* message.write of the initial message fails when the call's headers do   *)
(* not fit the payload; the continuation message has no fields to write.   *)
NewFragmentErr(initial) == IF initial /\ ~headerFits THEN ErrCodec ELSE NoError

NewFragmentAlwaysInitial(initial) ==
    [present |-> TRUE, frame |-> acquired + 1, msgType |-> MessageForFragment(TRUE),
     items |-> <<>>]

NewFragment(initial) ==
    [present |-> TRUE, frame |-> acquired + 1, msgType |-> MessageForFragment(initial),
     items |-> <<>>]

FailedNoShutdown(e) ==
    /\ err' = IF err = NoError THEN e ELSE err
    /\ UNCHANGED shutdowns

(* failed: the first error wins, and recording it shuts the exchange down. *)
Failed(e) ==
    /\ err' = IF err = NoError THEN e ELSE err
    /\ shutdowns' = IF err = NoError THEN shutdowns + 1 ELSE shutdowns

FlushOutcomesUnbounded ==
    IF err # NoError THEN {err}
    ELSE {o \in {ErrCancelled, NoError} : o = ErrCancelled => ctxDone}

(* flushFragment: the error it returns.  A latched error is returned       *)
(* as is.  Otherwise it is a select over ctx.Done(), a send on sendCh and  *)
(* default; Go picks at random among the cases that are ready, so a        *)
(* cancelled call may still send when the channel has room.               *)
FlushOutcomes ==
    IF err # NoError THEN {err}
    ELSE {o \in {ErrCancelled, NoError, ErrSendBufferFull} :
            \/ o = ErrCancelled /\ ctxDone
            \/ o = NoError /\ Len(sendCh) < SendBufferSize
            \/ o = ErrSendBufferFull /\ ~ctxDone /\ Len(sendCh) >= SendBufferSize}

(* flushFragment with outcome o: the frame goes into sendCh, or the writer *)
(* fails with o.                                                           *)
FlushFragment(frame, o) ==
    \/ /\ err # NoError
       /\ UNCHANGED <<err, shutdowns, sendCh, sent>>
    \/ /\ err = NoError /\ o = NoError
       /\ sendCh' = Append(sendCh, frame)
       /\ sent' = Append(sent, frame)
       /\ UNCHANGED <<err, shutdowns>>
    \/ /\ err = NoError /\ o # NoError
       /\ Failed(o)
       /\ UNCHANGED <<sendCh, sent>>

-----------------------------------------------------------------------------
(* fragmentingWriter.ArgWriter(last), i.e. BeginArgument: the error it     *)
(* returns, and the fragment it starts when it holds none.                 *)
NeedsFragment ==
    fwErr = NoError /\ fwState \in {"Start", "WaitingForArgument"} /\ ~curFragment.present

BeginArgumentErr ==
    CASE fwErr # NoError                               -> fwErr
      [] fwState = "Complete"                          -> ErrComplete
      [] fwState \in {"InArgument", "InLastArgument"}  -> ErrAlreadyWritingArgument
      [] NeedsFragment                                 -> NewFragmentErr(fwState = "Start")
      [] OTHER                                         -> NoError

(* The part of argWriter after its guards: open the argument in the        *)
(* fragmenting writer and, if that worked, move to outState.  An error     *)
(* from contents.ArgWriter is returned without being latched.              *)
OpenArgument(n) ==
    LET e == BeginArgumentErr IN
    /\ fwErr' = e
    /\ curFragment' = IF e = NoError /\ ~curFragment.present
                        THEN NewFragment(fwState = "Start") ELSE curFragment
    /\ fwState' = IF e # NoError THEN fwState
                  ELSE IF n = 3 THEN "InLastArgument" ELSE "InArgument"
    /\ state' = IF e = NoError THEN WriterStates[n + 1] ELSE state
    /\ acquired' = IF NeedsFragment THEN acquired + 1 ELSE acquired
    /\ returned' = e
    /\ UNCHANGED <<err, shutdowns, sendCh, sent>>

ArgWriterUnguarded(n) ==
    /\ \/ /\ state # WriterStates[n]
          /\ Failed(ErrStateMismatch)
          /\ returned' = err'
          /\ UNCHANGED <<state, fwState, fwErr, curFragment, sendCh, sent, acquired>>
       \/ state = WriterStates[n] /\ OpenArgument(n)
    /\ UNCHANGED <<written, ctxDone, headerFits>>

(* argWriter(last, inState, outState) as called by arg1Writer, arg2Writer  *)
(* and arg3Writer: argument n is opened from WriterStates[n].              *)
ArgWriter(n) ==
    /\ \/ /\ err # NoError
          /\ returned' = err
          /\ UNCHANGED <<state, err, shutdowns, fwState, fwErr, curFragment,
                         sendCh, sent, acquired>>
       \/ /\ err = NoError /\ state # WriterStates[n]
          /\ Failed(ErrStateMismatch)
          /\ returned' = ErrStateMismatch
          /\ UNCHANGED <<state, fwState, fwErr, curFragment, sendCh, sent, acquired>>
       \/ err = NoError /\ state = WriterStates[n] /\ OpenArgument(n)
    /\ UNCHANGED <<written, ctxDone, headerFits>>


(* The argument the caller's open sink belongs to: the one whose argWriter *)
(* call moved the state to where it is now.                                *)
OpenArg == CHOOSE n \in 1..3 : WriterStates[n + 1] = state

WrittenTo(n) == Len(SelectSeq(written, LAMBDA i : i.arg = n))

ContinueFragmentDropped(item) == NewFragment(FALSE)

ContinueFragmentSameFrame(item) ==
    [NewFragment(FALSE) EXCEPT !.items = <<item>>, !.frame = curFragment.frame]

(* After Flush, the rest of the write goes into the continuation fragment, *)
(* built by newFragment(false) in a fresh frame from the pool.             *)
ContinueFragment(item) == [NewFragment(FALSE) EXCEPT !.items = <<item>>]

(* fragmentingWriter.Write of the next item of the open argument.  The     *)
(* item goes into the current fragment if it has room; otherwise Flush     *)
(* sends the fragment with flushFragment and starts a continuation with    *)
(* newFragment(false), whose message always fits.                          *)
Write ==
    LET n     == OpenArg
        item  == [arg |-> n, k |-> WrittenTo(n) + 1]
        frame == [frame |-> curFragment.frame, msgType |-> curFragment.msgType,
                  more |-> TRUE, items |-> curFragment.items]
    IN
    /\ fwState \in {"InArgument", "InLastArgument"}
    /\ WrittenTo(n) < MaxWrites
    /\ \/ /\ fwErr # NoError
          /\ returned' = fwErr
          /\ UNCHANGED <<err, shutdowns, fwErr, curFragment, written, sendCh, sent,
                         acquired>>
       \/ /\ fwErr = NoError /\ DataLen(curFragment.items) < FragCap
          /\ curFragment' = [curFragment EXCEPT !.items = Append(@, item)]
          /\ written' = Append(written, item)
          /\ returned' = NoError
          /\ UNCHANGED <<err, shutdowns, fwErr, sendCh, sent, acquired>>
       \/ /\ fwErr = NoError /\ DataLen(curFragment.items) >= FragCap
          /\ \E o \in FlushOutcomes :
                /\ FlushFragment(frame, o)
                /\ fwErr' = o
                /\ returned' = o
                /\ curFragment' = IF o = NoError THEN ContinueFragment(item)
                                  ELSE curFragment
                /\ written' = IF o = NoError THEN Append(written, item)
                              ELSE written
                /\ acquired' = IF o = NoError THEN acquired + 1 ELSE acquired
    /\ UNCHANGED <<state, fwState, ctxDone, headerFits>>

(* fragmentingWriter.Close: finish the argument's chunk.  The fragment     *)
(* stays open when another argument follows and there is room for it;     *)
(* otherwise it is flushed, marked as the last one after the last          *)
(* argument, and dropped whatever the flush returned.                      *)
Close ==
    LET last  == fwState = "InLastArgument"
        items == Append(curFragment.items, End)
        frame == [frame |-> curFragment.frame, msgType |-> curFragment.msgType,
                  more |-> ~last, items |-> items]
    IN
    /\ fwState \in {"InArgument", "InLastArgument"}
    /\ \/ /\ fwErr # NoError
          /\ returned' = fwErr
          /\ UNCHANGED <<err, shutdowns, fwState, fwErr, curFragment, sendCh, sent>>
       \/ /\ fwErr = NoError /\ ~last /\ DataLen(items) < FragCap
          /\ fwState' = "WaitingForArgument"
          /\ curFragment' = [curFragment EXCEPT !.items = items]
          /\ returned' = NoError
          /\ UNCHANGED <<err, shutdowns, fwErr, sendCh, sent>>
       \/ /\ fwErr = NoError /\ (last \/ DataLen(items) >= FragCap)
          /\ fwState' = IF last THEN "Complete" ELSE "WaitingForArgument"
          /\ \E o \in FlushOutcomes :
                FlushFragment(frame, o) /\ fwErr' = o /\ returned' = o
          /\ curFragment' = NoFragment
    /\ UNCHANGED <<state, written, ctxDone, headerFits, acquired>>

(* The call's context is cancelled, or its deadline passes.                *)
Cancel ==
    /\ ~ctxDone
    /\ ctxDone' = TRUE
    /\ UNCHANGED <<state, err, shutdowns, headerFits, fwState, fwErr,
                   curFragment, written, sendCh, sent, returned, acquired>>

(* The connection's send loop takes the next frame off conn.sendCh.        *)
ConnSend ==
    /\ sendCh # <<>>
    /\ sendCh' = Tail(sendCh)
    /\ UNCHANGED <<state, err, shutdowns, ctxDone, headerFits, fwState, fwErr,
                   curFragment, written, sent, returned, acquired>>

Init ==
    /\ state = "PreArg1"
    /\ err = NoError
    /\ shutdowns = 0
    /\ ctxDone = FALSE
    /\ headerFits \in BOOLEAN
    /\ fwState = "Start"
    /\ fwErr = NoError
    /\ curFragment = NoFragment
    /\ written = <<>>
    /\ sendCh = <<>>
    /\ sent = <<>>
    /\ returned = NoError
    /\ acquired = 0

(* The caller's operations on the writer, in any order it chooses.         *)
CallerNext == (\E n \in 1..3 : ArgWriter(n)) \/ Write \/ Close

Next == CallerNext \/ Cancel \/ ConnSend

Spec == Init /\ [][Next]_vars

-----------------------------------------------------------------------------
(* Frames handed to the connection, their items run together.             *)
Stream == FlattenSeq([i \in DOMAIN sent |-> sent[i].items])

(* The argument a reader assigns to position i of a stream: one more than  *)
(* the number of argument ends before it.                                  *)
SlotAt(s, i) == 1 + Len(SelectSeq(SubSeq(s, 1, i - 1), LAMBDA x : x = End))

TypeOK ==
    /\ state \in {WriterStates[i] : i \in 1..4}
    /\ err \in Errors \cup {NoError}
    /\ shutdowns \in 0..1
    /\ ctxDone \in BOOLEAN /\ headerFits \in BOOLEAN
    /\ fwState \in FWStates
    /\ fwErr \in Errors \cup {NoError}
    /\ curFragment \in [present : BOOLEAN, frame : Nat, msgType : MsgTypes,
                        items : Seq(Items)]
    /\ written \in Seq(Items)
    /\ sendCh \in Seq(Frames) /\ Len(sendCh) <= SendBufferSize
    /\ sent \in Seq(Frames)
    /\ returned \in Errors \cup {NoError}
    /\ acquired \in Nat

(* newFragment/messageForFragment: the first frame of the call carries the *)
(* call message and every later one the continuation message, and every   *)
(* frame but the last says more fragments follow.                          *)
FramesWellFormed ==
    \A i \in DOMAIN sent :
        /\ sent[i].msgType = MessageForFragment(i = 1)
        /\ i < Len(sent) => sent[i].more

(* Write, Flush and Close together with flushFragment: what reaches the    *)
(* connection is a prefix of what the caller wrote (all of it, with the    *)
(* open fragment, while nothing failed), and every item sits in the slot   *)
(* of the argument it was written to.                                      *)
StreamIntegrity ==
    /\ IsPrefix(SelectSeq(Stream, IsData), written)
    /\ err = NoError /\ fwErr = NoError =>
            SelectSeq(Stream \o curFragment.items, IsData) = written
    /\ \A i \in DOMAIN Stream : IsData(Stream[i]) => Stream[i].arg = SlotAt(Stream, i)

(* Ownership of pooled frames (spec.md 4.1, 5): a frame handed to sendCh  *)
(* is handed over once and never written to again, and while nothing has  *)
(* failed every frame taken from the pool is either the open fragment or  *)
(* has been handed over; frames are dropped only by a failed flush or a    *)
(* failed newFragment.                                                     *)
FrameOwnership ==
    /\ \A i, j \in DOMAIN sent : i # j => sent[i].frame # sent[j].frame
    /\ \A i \in DOMAIN sent : curFragment.present => curFragment.frame # sent[i].frame
    /\ err = NoError /\ fwErr = NoError =>
          acquired = Len(sent) + (IF curFragment.present THEN 1 ELSE 0)

(* argWriter and flushFragment return a latched error before anything     *)
(* else: once the writer has failed its error, its state and what it has  *)
(* sent never change again.                                                *)
LatchIsFinal ==
    [][err # NoError => /\ err' = err
                        /\ state' = state
                        /\ sent' = sent]_vars

(* spec.md 4.2 and 7: every error the writer returns to its caller is      *)
(* latched and shuts the message exchange down, so the peer is not left    *)
(* waiting.                                                                *)
ErrorsShutDownExchange ==
    returned # NoError => err # NoError /\ shutdowns = 1

(* spec.md 4.1: once the call's cancellation has fired, flushFragment      *)
(* fails with the cancellation error instead of sending.                   *)
NoSendAfterCancel ==
    [][ctxDone => sent' = sent]_vars

====
