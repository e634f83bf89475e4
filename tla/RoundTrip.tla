------------------------------ MODULE RoundTrip ------------------------------
(***************************************************************************)
(* A whole call: the request (Q) travels from the client's reqResWriter to *)
(* the server's reqResReader, and the response (P) from the server's       *)
(* reqResWriter back to the client's reqResReader.  Each is one Call.  On  *)
(* each side the writer and the reader belong to one call and share its    *)
(* context and its message exchange (spec.md 5), so the two directions     *)
(* share clientCtx and serverCtx: the cancellation signal of that side's   *)
(* exchange, which also fires when the exchange is torn down.  The server  *)
(* handler writes the response once it has read the whole request.        *)
(***************************************************************************)
EXTENDS Fragments

CONSTANTS FragCap, SendBufferSize

VARIABLES
    clientCtx,   \* the client call's ctx.Done(), or its exchange torn down
    serverCtx,   \* the same for the server's side of the call
    qState, qErr, qShutdowns, qHeaderFits, qFwState, qFwErr, qCurFragment,
    qWritten, qSendCh, qSent, qReturned, qAcquired, qRstate, qRerr,
    qRshutdowns, qInitialFragment, qInbound, qFrState, qFrErr, qFrFragment,
    qReadItems, qRreturned, qReaderReady, qCorrupted,
    pState, pErr, pShutdowns, pHeaderFits, pFwState, pFwErr, pCurFragment,
    pWritten, pSendCh, pSent, pReturned, pAcquired, pRstate, pRerr,
    pRshutdowns, pInitialFragment, pInbound, pFrState, pFrErr, pFrFragment,
    pReadItems, pRreturned, pReaderReady, pCorrupted

Q == INSTANCE Call WITH
    state <- qState, err <- qErr, shutdowns <- qShutdowns,
    ctxDone <- clientCtx, headerFits <- qHeaderFits, fwState <- qFwState,
    fwErr <- qFwErr, curFragment <- qCurFragment, written <- qWritten,
    sendCh <- qSendCh, sent <- qSent, returned <- qReturned,
    acquired <- qAcquired, rstate <- qRstate, rerr <- qRerr,
    rshutdowns <- qRshutdowns, rctxDone <- serverCtx,
    initialFragment <- qInitialFragment, inbound <- qInbound,
    frState <- qFrState, frErr <- qFrErr, frFragment <- qFrFragment,
    readItems <- qReadItems, rreturned <- qRreturned,
    readerReady <- qReaderReady, corrupted <- qCorrupted

P == INSTANCE Call WITH
    state <- pState, err <- pErr, shutdowns <- pShutdowns,
    ctxDone <- serverCtx, headerFits <- pHeaderFits, fwState <- pFwState,
    fwErr <- pFwErr, curFragment <- pCurFragment, written <- pWritten,
    sendCh <- pSendCh, sent <- pSent, returned <- pReturned,
    acquired <- pAcquired, rstate <- pRstate, rerr <- pRerr,
    rshutdowns <- pRshutdowns, rctxDone <- clientCtx,
    initialFragment <- pInitialFragment, inbound <- pInbound,
    frState <- pFrState, frErr <- pFrErr, frFragment <- pFrFragment,
    readItems <- pReadItems, rreturned <- pRreturned,
    readerReady <- pReaderReady, corrupted <- pCorrupted

(* Each direction's own variables, without the two shared contexts.        *)
qvars == <<qState, qErr, qShutdowns, qHeaderFits, qFwState, qFwErr,
           qCurFragment, qWritten, qSendCh, qSent, qReturned, qAcquired,
           qRstate, qRerr, qRshutdowns, qInitialFragment, qInbound, qFrState,
           qFrErr, qFrFragment, qReadItems, qRreturned, qReaderReady,
           qCorrupted>>
pvars == <<pState, pErr, pShutdowns, pHeaderFits, pFwState, pFwErr,
           pCurFragment, pWritten, pSendCh, pSent, pReturned, pAcquired,
           pRstate, pRerr, pRshutdowns, pInitialFragment, pInbound, pFrState,
           pFrErr, pFrFragment, pReadItems, pRreturned, pReaderReady,
           pCorrupted>>
vars == <<clientCtx, serverCtx, qvars, pvars>>

-----------------------------------------------------------------------------
(* The client's caller writes the request; the connections and the         *)
(* handlers move frames and read.                                          *)
ClientWrite      == Q!WriterStep /\ UNCHANGED pvars
RequestTransmit  == Q!Transmit   /\ UNCHANGED pvars
RequestDispatch  == Q!Dispatch   /\ UNCHANGED pvars
RequestTruncate  == Q!Truncate   /\ UNCHANGED pvars
ServerRead       == Q!HandlerStep /\ UNCHANGED pvars
ResponseTransmit == P!Transmit   /\ UNCHANGED qvars
ResponseTruncate == P!Truncate   /\ UNCHANGED qvars
ClientRead       == P!HandlerStep /\ UNCHANGED qvars

(* The server handler writes its response after reading the request.       *)
ServerRespond == Q!ReaderDone /\ P!WriterStep /\ UNCHANGED qvars

(* Each side's deadline: the client's context, or the server's.            *)
ClientDeadline == Q!WriterCancel /\ UNCHANGED pvars
ServerDeadline == Q!ReaderCancel /\ UNCHANGED pvars

(* mex.shutdown() by any of the four (failed, reqres.go 139 and 225) tears *)
(* down the exchange it is called on, which that side's writer and reader  *)
(* share, and the peer's counterpart of it (spec.md 5, 6).                 *)
AnyShutdown == qShutdowns + qRshutdowns + pShutdowns + pRshutdowns > 0

ClientTeardown ==
    /\ AnyShutdown /\ ~clientCtx
    /\ clientCtx' = TRUE
    /\ UNCHANGED <<serverCtx, qvars, pvars>>

ServerTeardown ==
    /\ AnyShutdown /\ ~serverCtx
    /\ serverCtx' = TRUE
    /\ UNCHANGED <<clientCtx, qvars, pvars>>

(* The server's reader is created by the request's first frame; the        *)
(* client's reader waits for the response from the start.                  *)
Init ==
    /\ Q!Init /\ P!Init
    /\ ~qReaderReady /\ pReaderReady

Next ==
    \/ ClientWrite \/ RequestTransmit \/ RequestDispatch \/ RequestTruncate
    \/ ServerRead \/ ServerRespond \/ ResponseTransmit \/ ResponseTruncate
    \/ ClientRead \/ ClientDeadline \/ ServerDeadline
    \/ ClientTeardown \/ ServerTeardown

(* The connections' loops and both handlers run while they have work, and  *)
(* a shutdown is delivered once made.  Neither caller's writes nor the     *)
(* deadlines get fairness.                                                 *)
Spec ==
    /\ Init /\ [][Next]_vars
    /\ WF_vars(RequestTransmit) /\ WF_vars(RequestDispatch)
    /\ WF_vars(ServerRead) /\ WF_vars(ResponseTransmit) /\ WF_vars(ClientRead)
    /\ WF_vars(ClientTeardown) /\ WF_vars(ServerTeardown)

-----------------------------------------------------------------------------
(* spec.md 5 and 7: failed shuts down the exchange shared by the writer    *)
(* and the reader of its side, and with it the peer's, so no party of the  *)
(* call is left waiting.  Without any deadline, once any of the four has   *)
(* latched an error (the client's request writer, the server's reader,     *)
(* the server's response writer or the client's reader), the client's      *)
(* reader eventually has the whole response or an error, and so does the   *)
(* server's reader if it exists.  A server that fails reading the request  *)
(* never responds, so only the shutdown releases the client.               *)
AnyFailed == qErr # NoError \/ qRerr # NoError \/ pErr # NoError \/ pRerr # NoError

NobodyLeftWaiting ==
    AnyFailed ~> (P!ReaderSettled /\ (qReaderReady => Q!ReaderSettled))

====
