-------------------------------- MODULE Call --------------------------------
(***************************************************************************)
(* One direction of a call: the sender's reqResWriter hands fragments to   *)
(* its connection's sendCh; the connection's send loop writes them to the  *)
(* socket, and the peer's connection forwards them, in order, to the       *)
(* message exchange its reqResReader receives from.  On the server side    *)
(* the reader is created when the call's first frame arrives, and that     *)
(* frame, already parsed, is its initialFragment; on the client side (a   *)
(* response) the reader receives every frame itself.  One frame may be     *)
(* truncated in transit.                                                   *)
(***************************************************************************)
EXTENDS Fragments

CONSTANTS FragCap, SendBufferSize

VARIABLES
    state, err, shutdowns, ctxDone, headerFits, fwState, fwErr, curFragment,
    written, sendCh, sent, returned, acquired,
    rstate, rerr, rshutdowns, rctxDone, initialFragment, inbound, frState,
    frErr, frFragment, readItems, rreturned,
    readerReady,   \* the reader exists (server side: the first frame was dispatched)
    corrupted      \* a frame has been truncated in transit

W == INSTANCE ReqResWriter
R == INSTANCE ReqResReader

wvars == <<state, err, shutdowns, ctxDone, headerFits, fwState, fwErr,
          curFragment, written, sendCh, sent, returned, acquired>>
rvars == <<rstate, rerr, rshutdowns, rctxDone, initialFragment, inbound,
           frState, frErr, frFragment, readItems, rreturned>>
cvars == <<wvars, rvars, readerReady, corrupted>>

(* A frame as the peer's exchange holds it.                                *)
OnArrival(f) == [msgType |-> f.msgType, more |-> f.more, items |-> f.items,
                 intact |-> TRUE]

-----------------------------------------------------------------------------
WriterStep == W!CallerNext /\ UNCHANGED <<rvars, readerReady, corrupted>>

WriterCancel == W!Cancel /\ UNCHANGED <<rvars, readerReady, corrupted>>

(* The send loop takes a frame off sendCh; the peer's connection forwards  *)
(* it to the call's exchange.  TCP keeps the order and loses nothing.      *)
Transmit ==
    /\ W!ConnSend
    /\ inbound' = Append(inbound, OnArrival(Head(sendCh)))
    /\ UNCHANGED <<rstate, rerr, rshutdowns, rctxDone, initialFragment, frState,
                   frErr, frFragment, readItems, rreturned, readerReady, corrupted>>

(* Server side: the connection parses the call's first frame and creates   *)
(* the reader with it as initialFragment.                                  *)
Dispatch ==
    /\ ~readerReady
    /\ inbound # <<>>
    /\ readerReady' = TRUE
    /\ initialFragment' = R!ParseInboundFragment(Head(inbound))
    /\ inbound' = Tail(inbound)
    /\ UNCHANGED <<wvars, rstate, rerr, rshutdowns, rctxDone, frState, frErr,
                   frFragment, readItems, rreturned, corrupted>>

(* One frame waiting at the exchange loses the end of its payload: the     *)
(* checksum, and possibly some of its argument items.                      *)
Truncate ==
    /\ readerReady /\ ~corrupted
    /\ \E i \in DOMAIN inbound : \E k \in 0..Len(inbound[i].items) :
          inbound' = [inbound EXCEPT ![i].intact = FALSE,
                                     ![i].items = SubSeq(@, 1, k)]
    /\ corrupted' = TRUE
    /\ UNCHANGED <<wvars, rstate, rerr, rshutdowns, rctxDone, initialFragment,
                   frState, frErr, frFragment, readItems, rreturned, readerReady>>

(* mex.shutdown() tears down the peer's side of the call as well (spec.md *)
(* 5, 6): the writer's shutdown reaches the reader's exchange, whose wait  *)
(* then ends as on a done context, and the reader's shutdown reaches the   *)
(* writer's exchange, whose ctx.Done() fires.                              *)
PeerTeardown ==
    /\ shutdowns > 0 /\ ~rctxDone
    /\ rctxDone' = TRUE
    /\ UNCHANGED <<wvars, rstate, rerr, rshutdowns, initialFragment, inbound,
                   frState, frErr, frFragment, readItems, rreturned, readerReady,
                   corrupted>>

WriterTeardown ==
    /\ rshutdowns > 0 /\ ~ctxDone
    /\ W!Cancel
    /\ UNCHANGED <<rvars, readerReady, corrupted>>

ReaderStep ==
    /\ readerReady
    /\ R!ReaderCallerNext
    /\ UNCHANGED <<wvars, readerReady, corrupted>>

ReaderCancel == R!RCancel /\ UNCHANGED <<wvars, readerReady, corrupted>>

(* The handler that reads a request as it is meant to: open the arguments *)
(* in order, read each to its end, then close it.                          *)
HandlerStep ==
    /\ readerReady
    /\ \/ \E n \in 1..3 : /\ rstate = R!ReaderStates[n]
                          /\ frState \in {"Start", "WaitingForArgument"}
                          /\ R!ArgReader(n)
       \/ R!Read
       \/ R!NextFragment
       \/ frFragment.items # <<>> /\ Head(frFragment.items) = End /\ R!Close
    /\ UNCHANGED <<wvars, readerReady, corrupted>>

Init ==
    /\ W!Init
    /\ R!RInit
    /\ readerReady \in BOOLEAN
    /\ corrupted = FALSE

Environment == WriterCancel \/ Transmit \/ Dispatch \/ Truncate \/ ReaderCancel
               \/ PeerTeardown \/ WriterTeardown

(* Both callers do whatever the API lets them.                             *)
Next == WriterStep \/ ReaderStep \/ Environment

Spec == Init /\ [][Next]_cvars

(* The reader's caller is the handler; the connection's loops and the      *)
(* handler keep running while they have something to do.                   *)
HandlerNext == WriterStep \/ HandlerStep \/ Environment

FairSpec ==
    /\ Init /\ [][HandlerNext]_cvars
    /\ WF_cvars(Transmit) /\ WF_cvars(Dispatch) /\ WF_cvars(HandlerStep)

(* A shutdown is delivered to the peer's exchange while it is pending.    *)
TeardownSpec == FairSpec /\ WF_cvars(PeerTeardown)

(* Every call carries a deadline: the reader's context is eventually done. *)
DeadlineSpec == FairSpec /\ WF_cvars(ReaderCancel)

-----------------------------------------------------------------------------
CTypeOK == W!TypeOK /\ R!RTypeOK /\ readerReady \in BOOLEAN /\ corrupted \in BOOLEAN

(* The reader's exchange is shut down exactly once if and only if the     *)
(* reader has failed, also when recvNextFragment's failed and argReader's *)
(* failed report the same error one after the other.                       *)
ReaderShutdownOnce == R!ReaderShutdownOnce

(* Once the reader has failed it neither moves on nor takes frames from    *)
(* the exchange (spec.md 4.3, 7).                                          *)
ReaderLatchIsFinal == R!ReaderLatchIsFinal

(* Refinement mapping: what the reader read, tagged with the argument it   *)
(* was read as instead of the one it was written to.                       *)
receivedAs == [j \in DOMAIN readItems |->
                  [arg |-> readItems[j].slot, k |-> readItems[j].item.k]]

Stream == INSTANCE ArgStream WITH written <- written, received <- receivedAs

(* Writer, connection, exchange and reader together implement ArgStream:  *)
(* the reader gets, in order, each in the argument it was written to, a    *)
(* prefix of what the writer's caller wrote, whatever the fragmentation,   *)
(* whichever side caches the first fragment, and whatever failed.         *)
ImplementsArgStream == Stream!Spec

(* A writer that finished all three arguments without error has sent      *)
(* everything the reader needs: unless the reader's call is cancelled or  *)
(* a frame is truncated, the handler eventually reads all three arguments *)
(* without error.                                                          *)
WriterDone == fwState = "Complete" /\ err = NoError
ReaderDone == frState = "Complete" /\ frErr = NoError /\ rerr = NoError

CompletesWhenUndisturbed ==
    ([]~rctxDone /\ []~corrupted) => (WriterDone ~> ReaderDone)

(* recvPeerFrameOfType selects on ctx.Done() as well as on the next frame, *)
(* so a reader never waits past its call's deadline: whatever the writer   *)
(* does (stopping midway after a full send buffer, failing, or never       *)
(* writing the rest) and whatever frame is truncated, once the reader      *)
(* exists the handler eventually reads the whole request or gets an error. *)
ReaderSettled == ReaderDone \/ rerr # NoError \/ frErr # NoError

DeadlineEndsRead == readerReady ~> ReaderSettled

(* failed shuts the exchange down so that the peer is not left waiting:   *)
(* without relying on any deadline, once the writer has failed, the reader *)
(* on the other side eventually reads the whole request or gets an error.  *)
PeerUnblocked == (err # NoError /\ readerReady) ~> ReaderSettled

====
