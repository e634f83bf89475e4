---------------------------- MODULE ReqResReader ----------------------------
(***************************************************************************)
(* The request/response argument reader of src/golang/reqres.go            *)
(* (reqResReader) together with the collaborators its operations drive:    *)
(*   - the fragmenting reader that reassembles arguments from fragments    *)
(*     (fragmentingReader; not under src/, modelled from spec.md 4.3),     *)
(*   - the message exchange: its cancellation signal, shutdown() and       *)
(*     recvPeerFrameOfType over the frames the connection forwarded to it. *)
(* Frames arrive in inbound; a composing module says where they come from. *)
(***************************************************************************)
EXTENDS Fragments

VARIABLES
    rstate,           \* reqResReader.state
    rerr,             \* reqResReader.err, the failure latch
    rshutdowns,       \* number of mex.shutdown() calls made by this reader
    rctxDone,         \* the exchange's ctx.Done() has been closed
    initialFragment,  \* reqResReader.initialFragment
    inbound,          \* frames forwarded to the exchange, not yet received
    frState,          \* fragmentingReader: where it is in the argument sequence
    frErr,            \* fragmentingReader: its own latched error
    frFragment,       \* fragmentingReader: the rest of the current fragment
    readItems,        \* history: items the caller read, with the argument it read
    rreturned         \* the error the caller's last call returned

rvars == <<rstate, rerr, rshutdowns, rctxDone, initialFragment, inbound,
           frState, frErr, frFragment, readItems, rreturned>>

-----------------------------------------------------------------------------
ReaderStates == ArgStates

ErrStateMismatch          == "StateMismatch"   \* errReqResReaderStateMismatch
ErrCancelled              == "Cancelled"       \* ctx.Err()
ErrUnexpectedFrameType    == "UnexpectedFrameType"
ErrCodec                  == "Codec"           \* rbuf.Err(), message.read
ErrAlreadyReadingArgument == "AlreadyReadingArgument"
ErrComplete               == "Complete"
ErrMoreDataInArgument     == "MoreDataInArgument"
ErrTooFewFragments        == "TooFewFragments"
ErrTooManyFragments       == "TooManyFragments"
RErrors == {ErrStateMismatch, ErrCancelled, ErrUnexpectedFrameType, ErrCodec,
            ErrAlreadyReadingArgument, ErrComplete, ErrMoreDataInArgument,
            ErrTooFewFragments, ErrTooManyFragments}

FRStates == {"Start", "WaitingForArgument", "InArgument", "InLastArgument",
             "Complete"}
Reading == {"InArgument", "InLastArgument"}

(* A frame as the exchange holds it: intact is FALSE when its payload was  *)
(* truncated, so that reading the checksum runs past its end.              *)
WireFrames == [msgType : MsgTypes, more : BOOLEAN, items : Seq(Items),
               intact : BOOLEAN]

NoFragment == [present |-> FALSE, more |-> FALSE, items |-> <<>>]

-----------------------------------------------------------------------------
(* failed, as a function of the latch [err, shutdowns]: the first error    *)
(* wins and recording it shuts the exchange down.                          *)
FailedUnguarded(l, e) == [err |-> e, shutdowns |-> l.shutdowns + 1]
FailedNoShutdown(l, e) == IF l.err # NoError THEN l ELSE [err |-> e, shutdowns |-> l.shutdowns]

Failed(l, e) ==
    IF l.err # NoError THEN l ELSE [err |-> e, shutdowns |-> l.shutdowns + 1]

Latch == [err |-> rerr, shutdowns |-> rshutdowns]
SetLatch(l) == rerr' = l.err /\ rshutdowns' = l.shutdowns

(* parseInboundFragment: flags, the message, checksum type and checksum;  *)
(* the error is rbuf.Err() after reading past a truncated payload.         *)
ParseInboundFragment(f) == [present |-> TRUE, more |-> f.more, items |-> f.items]
ParseErrUnchecked(f) == NoError
ParseErr(f) == IF f.intact THEN NoError ELSE ErrCodec

ExpectedTypeAlwaysInitial(initial) == MessageForFragment(TRUE)

(* recvNextFragment waits for the message type messageForFragment(initial). *)
ExpectedType(initial) == MessageForFragment(initial)

RecvOutcomesNoCtx(initial) ==
    IF initialFragment.present
    THEN {[err |-> NoError, frag |-> initialFragment, from |-> "cache"]}
    ELSE IF inbound = <<>> THEN {}
         ELSE {[err  |-> IF Head(inbound).msgType # ExpectedType(initial)
                         THEN ErrUnexpectedFrameType ELSE ParseErr(Head(inbound)),
                frag |-> ParseInboundFragment(Head(inbound)), from |-> "recvCh"]}

(* recvNextFragment(initial): the results it can produce.  A cached        *)
(* initial fragment is handed out first.  Otherwise the exchange's         *)
(* recvPeerFrameOfType waits in a select on ctx.Done() and the next frame, *)
(* taking either when both are ready, and rejects a frame of the wrong     *)
(* message type; the frame is then parsed.  "from" says what was used up.  *)
RecvOutcomes(initial) ==
    IF initialFragment.present
    THEN {[err |-> NoError, frag |-> initialFragment, from |-> "cache"]}
    ELSE (IF rctxDone
          THEN {[err |-> ErrCancelled, frag |-> NoFragment, from |-> "ctx"]}
          ELSE {})
         \cup
         (IF inbound = <<>> THEN {}
          ELSE LET f == Head(inbound) IN
               {[err  |-> IF f.msgType # ExpectedType(initial)
                          THEN ErrUnexpectedFrameType ELSE ParseErr(f),
                 frag |-> ParseInboundFragment(f),
                 from |-> "recvCh"]})

RecvEffectKeepsCache(o) ==
    /\ initialFragment' = initialFragment
    /\ inbound' = IF o.from = "recvCh" THEN Tail(inbound) ELSE inbound

(* The effect of recvNextFragment with result o, and the error it returns: *)
(* on an error, r.failed(err), which returns the latched error.            *)
RecvEffect(o) ==
    /\ initialFragment' = IF o.from = "cache" THEN NoFragment ELSE initialFragment
    /\ inbound' = IF o.from = "recvCh" THEN Tail(inbound) ELSE inbound
RecvErr(o) == IF o.err = NoError THEN NoError ELSE Failed(Latch, o.err).err

(* fragmentingReader.recvAndParseNextFragment with result o: the fragment  *)
(* becomes current, or the fragmenting reader latches the error.           *)
TakeFragment(o) ==
    /\ frErr' = RecvErr(o)
    /\ frFragment' = IF o.err = NoError THEN o.frag ELSE NoFragment

-----------------------------------------------------------------------------
(* fragmentingReader.ArgReader(last), i.e. BeginArgument, when no fragment *)
(* has to be received: the error it returns.                               *)
BeginArgumentErr ==
    CASE frErr # NoError         -> frErr
      [] frState \in Reading     -> ErrAlreadyReadingArgument
      [] frState = "Complete"    -> ErrComplete
      [] OTHER                   -> NoError

ArgStateAfter(n) == IF n = 3 THEN "InLastArgument" ELSE "InArgument"

(* argReader(last, inState, outState) as called by arg1Reader, arg2Reader  *)
(* and arg3Reader.  It has no guard on a latched error: a mismatch fails   *)
(* the reader, and otherwise contents.ArgReader runs, its error going      *)
(* through r.failed and its success moving the state to outState.          *)
ArgReader(n) ==
    \/ /\ rstate # ReaderStates[n]
       /\ SetLatch(Failed(Latch, ErrStateMismatch))
       /\ rreturned' = Failed(Latch, ErrStateMismatch).err
       /\ UNCHANGED <<rstate, rctxDone, initialFragment, inbound, frState,
                      frErr, frFragment, readItems>>
    \/ /\ rstate = ReaderStates[n]
       /\ frState = "Start" /\ frErr = NoError
       /\ \E o \in RecvOutcomes(TRUE) :
             /\ RecvEffect(o)
             /\ TakeFragment(o)
             /\ IF o.err = NoError
                THEN /\ frState' = ArgStateAfter(n)
                     /\ rstate' = ReaderStates[n + 1]
                     /\ rreturned' = NoError
                     /\ UNCHANGED <<rerr, rshutdowns>>
                ELSE LET l == Failed(Failed(Latch, o.err), RecvErr(o)) IN
                     /\ SetLatch(l)
                     /\ rreturned' = l.err
                     /\ UNCHANGED <<frState, rstate>>
       /\ UNCHANGED <<rctxDone, readItems>>
    \/ /\ rstate = ReaderStates[n]
       /\ ~(frState = "Start" /\ frErr = NoError)
       /\ LET e == BeginArgumentErr IN
          IF e = NoError
          THEN /\ frState' = ArgStateAfter(n)
               /\ rstate' = ReaderStates[n + 1]
               /\ rreturned' = NoError
               /\ UNCHANGED <<rerr, rshutdowns, frErr>>
          ELSE /\ frErr' = e
               /\ SetLatch(Failed(Latch, e))
               /\ rreturned' = Failed(Latch, e).err
               /\ UNCHANGED <<frState, rstate>>
       /\ UNCHANGED <<rctxDone, initialFragment, inbound, frFragment, readItems>>

(* The argument the caller is reading: the one whose argReader call moved *)
(* the state to where it is now.                                           *)
CurArg == CHOOSE n \in 1..3 : ReaderStates[n + 1] = rstate

(* fragmentingReader.Read of the next item of the current argument.  At    *)
(* the argument's end it returns EOF and changes nothing, which is a       *)
(* stuttering step and not written out.                                    *)
Read ==
    /\ frState \in Reading
    /\ \/ /\ frErr # NoError
          /\ rreturned' = frErr
          /\ UNCHANGED <<frFragment, readItems>>
       \/ /\ frErr = NoError
          /\ frFragment.items # <<>> /\ IsData(Head(frFragment.items))
          /\ readItems' = Append(readItems,
                                 [slot |-> CurArg, item |-> Head(frFragment.items)])
          /\ frFragment' = [frFragment EXCEPT !.items = Tail(@)]
          /\ rreturned' = NoError
    /\ UNCHANGED <<rstate, rerr, rshutdowns, rctxDone, initialFragment, inbound,
                   frState, frErr>>

(* Read and Close, on reaching the end of a fragment that says more        *)
(* follow, receive the next one with recvNextFragment(false).              *)
NextFragment ==
    /\ frState \in Reading /\ frErr = NoError
    /\ frFragment.items = <<>> /\ frFragment.more
    /\ \E o \in RecvOutcomes(FALSE) :
          /\ RecvEffect(o)
          /\ TakeFragment(o)
          /\ SetLatch(IF o.err = NoError THEN Latch ELSE Failed(Latch, o.err))
          /\ rreturned' = RecvErr(o)
    /\ UNCHANGED <<rstate, rctxDone, frState, readItems>>

(* fragmentingReader.Close: the argument must end here.  After the last    *)
(* argument no fragment may follow; after another one, the next argument   *)
(* starts in this fragment or, when it is used up, in the next one, which  *)
(* Close receives.                                                         *)
Close ==
    LET last == frState = "InLastArgument"
        rest == Tail(frFragment.items)
    IN
    /\ frState \in Reading
    /\ ~(frErr = NoError /\ frFragment.items = <<>> /\ frFragment.more)
    /\ \/ /\ frErr # NoError
          /\ rreturned' = frErr
          /\ UNCHANGED <<rerr, rshutdowns, initialFragment, inbound, frState,
                         frErr, frFragment>>
       \/ /\ frErr = NoError
          /\ ~(frFragment.items # <<>> /\ Head(frFragment.items) = End)
          /\ frErr' = IF frFragment.items = <<>> THEN ErrTooFewFragments
                      ELSE ErrMoreDataInArgument
          /\ rreturned' = frErr'
          /\ UNCHANGED <<rerr, rshutdowns, initialFragment, inbound, frState,
                         frFragment>>
       \/ /\ frErr = NoError
          /\ frFragment.items # <<>> /\ Head(frFragment.items) = End
          /\ \/ /\ last
                /\ frErr' = IF rest # <<>> \/ frFragment.more
                            THEN ErrTooManyFragments ELSE NoError
                /\ frState' = "Complete"
                /\ frFragment' = NoFragment
                /\ rreturned' = frErr'
                /\ UNCHANGED <<rerr, rshutdowns, initialFragment, inbound>>
             \/ /\ ~last /\ (rest # <<>> \/ ~frFragment.more)
                /\ frErr' = IF rest = <<>> THEN ErrTooFewFragments ELSE NoError
                /\ frState' = "WaitingForArgument"
                /\ frFragment' = [frFragment EXCEPT !.items = rest]
                /\ rreturned' = frErr'
                /\ UNCHANGED <<rerr, rshutdowns, initialFragment, inbound>>
             \/ /\ ~last /\ rest = <<>> /\ frFragment.more
                /\ frState' = "WaitingForArgument"
                /\ \E o \in RecvOutcomes(FALSE) :
                      /\ RecvEffect(o)
                      /\ TakeFragment(o)
                      /\ SetLatch(IF o.err = NoError THEN Latch
                                  ELSE Failed(Latch, o.err))
                      /\ rreturned' = RecvErr(o)
    /\ UNCHANGED <<rstate, rctxDone, readItems>>

(* The exchange's context is cancelled, or its deadline passes.            *)
RCancel ==
    /\ ~rctxDone
    /\ rctxDone' = TRUE
    /\ UNCHANGED <<rstate, rerr, rshutdowns, initialFragment, inbound, frState,
                   frErr, frFragment, readItems, rreturned>>

RInit ==
    /\ rstate = "PreArg1"
    /\ rerr = NoError
    /\ rshutdowns = 0
    /\ rctxDone = FALSE
    /\ initialFragment = NoFragment
    /\ inbound = <<>>
    /\ frState = "Start"
    /\ frErr = NoError
    /\ frFragment = NoFragment
    /\ readItems = <<>>
    /\ rreturned = NoError

(* The caller's operations on the reader, in any order it chooses.         *)
ReaderCallerNext == (\E n \in 1..3 : ArgReader(n)) \/ Read \/ NextFragment \/ Close

-----------------------------------------------------------------------------
RTypeOK ==
    /\ rstate \in {ReaderStates[i] : i \in 1..4}
    /\ rerr \in RErrors \cup {NoError}
    /\ rshutdowns \in Nat
    /\ rctxDone \in BOOLEAN
    /\ initialFragment \in [present : BOOLEAN, more : BOOLEAN, items : Seq(Items)]
    /\ inbound \in Seq(WireFrames)
    /\ frState \in FRStates
    /\ frErr \in RErrors \cup {NoError}
    /\ frFragment \in [present : BOOLEAN, more : BOOLEAN, items : Seq(Items)]
    /\ readItems \in Seq([slot : 1..3, item : DataItems])
    /\ rreturned \in RErrors \cup {NoError}

(* failed shuts the exchange down on the first error only, also when      *)
(* recvNextFragment and argReader both report the same failure: the       *)
(* exchange has been shut down exactly once if and only if the reader     *)
(* has failed.                                                             *)
ReaderShutdownOnce ==
    rshutdowns = IF rerr = NoError THEN 0 ELSE 1

(* spec.md 4.3 and 7: once the reader has failed, no later call moves it   *)
(* to another state or takes another frame from the exchange.              *)
ReaderLatchIsFinal ==
    [][rerr # NoError => /\ rerr' = rerr
                         /\ rstate' = rstate
                         /\ Len(inbound') >= Len(inbound)]_rvars

====
