---------------------------- MODULE MCRealtime ----------------------------
(* The clients, the channels and the hub side by side, for TLC.  They      *)
(* share no state: a behaviour is one of a single part, and the others     *)
(* stay as they began.  The WebSocket client comes twice: sending, and     *)
(* receiving with the heartbeat, each over every change of the link.       *)
EXTENDS WebSocketClient, Datagrams, RealtimeHub, RtcChannel, SocketAdapter, WebTransportClient,
        Broadcast, Framing, TLC

\* The first subscriber is batched and is disconnected when it is slow; the other one takes one
\* value at a time and drops.
MCMaxQueue == 1 :> 2 @@ 2 :> 2
MCMaxBatch == 1 :> 2 @@ 2 :> 1
MCPolicy == 1 :> "disconnect" @@ 2 :> "drop-oldest"
MCObject == [n \in Pubs |-> n]

\* One subscriber that takes batches of three, and a publisher that comes back to its values.
MCMemoObject == [n \in Pubs |-> << "x", "y", "x", "x", "z", "x" >>[n]]
MCMemoMaxQueue == 1 :> 3
MCMemoMaxBatch == 1 :> 3
MCMemoPolicy == 1 :> "drop-newest"

\* One frame is as large as the high water mark.
MCSize == [f \in RtcFrames |-> IF f = 2 THEN 2 ELSE 1]

VARIABLE part

Parts == {"sending", "receiving", "transport", "adapter", "datagrams", "rtc", "broadcast",
          "framing", "hub"}

linkVars == << wsVars, wtVars, adVars >>
channelVars == << dgVars, rtcVars, bcVars, frVars >>

\* The parts that are not the one that moves begin in one state.
Init ==
  /\ part \in Parts
  /\ WsInit /\ (part \notin {"sending", "receiving"} => tier = "events")
  /\ WtInit
  /\ AdInit /\ (part # "adapter" => kind = "ws" /\ sock = "open")
  /\ DgInit /\ (part # "datagrams" => up)
  /\ RtcInit /\ (part # "rtc" => rtcState = "open")
  /\ BcInit
  /\ FrInit /\ (part # "framing" => stream = << >>)
  /\ HubInit /\ (part # "hub" => ~delayed)

ClientNext ==
  /\ \/ part = "sending" /\ (LinkNext \/ SendingNext) /\ UNCHANGED << wtVars, adVars >>
     \/ part = "receiving" /\ (LinkNext \/ ReceivingNext) /\ UNCHANGED << wtVars, adVars >>
     \/ part = "transport" /\ WtNext /\ UNCHANGED << wsVars, adVars >>
     \/ part = "adapter" /\ AdNext /\ UNCHANGED << wsVars, wtVars >>
  /\ UNCHANGED << channelVars, hubVars >>

ChannelNext ==
  /\ \/ part = "datagrams" /\ DgNext /\ UNCHANGED << rtcVars, bcVars, frVars >>
     \/ part = "rtc" /\ RtcNext /\ UNCHANGED << dgVars, bcVars, frVars >>
     \/ part = "broadcast" /\ BcNext /\ UNCHANGED << dgVars, rtcVars, frVars >>
     \/ part = "framing" /\ FrNext /\ UNCHANGED << dgVars, rtcVars, bcVars >>
  /\ UNCHANGED << linkVars, hubVars >>

Next ==
  /\ \/ ClientNext \/ ChannelNext
     \/ part = "hub" /\ HubNext /\ UNCHANGED << linkVars, channelVars >>
  /\ UNCHANGED part

realtimeVars == << part, linkVars, channelVars, hubVars >>

Spec == Init /\ [][Next]_realtimeVars

\* The hub alone.
HubSpec == (part = "hub" /\ Init) /\ [][Next]_realtimeVars

-----------------------------------------------------------------------------
(* Each part keeps its promises; one that does not move keeps what it had.  *)

\* Whatever was called, timed out, failed or closed: a client has one live socket or session at
\* most and something to come that opens the next, until told to stop or out of attempts; each
\* frame has one fate, and what arrives is delivered in order; the adapter that wraps a socket
\* reports its end once and completes a drain.  Excused, each where its part says so: a
\* connect() while a reconnect was due (raced), the retries of the streams tier, a constructor
\* that threw, a session that aborted before it was open (broken) or that ended while its
\* stream was made (ghost), and an adapter told of a message after its close (late).
LinksAreSound ==
  /\ part \in {"sending", "receiving"} => ClientIsSound
  /\ part = "transport" => WtIsSound
  /\ part = "adapter" => AdapterIsSound

\* A datagram is handed on at most once and in order, and one that was sent is in the queue
\* exactly when that is its fate; the frames of a data channel go out in order, and one under
\* pressure is released; who does not answer a broadcast is known, and only they; a beating
\* heart has a check to come; and of a byte stream cut anywhere the decoder keeps the unfinished
\* rest, having passed over the frames before it in order (frames that came in one piece with
\* a refused one count as passed: push() throws, and its caller never gets them).
ChannelsDeliver ==
  /\ part = "datagrams" => DatagramsAreSound
  /\ part = "rtc" => RtcIsSound
  /\ part = "broadcast" => BroadcastIsSound
  /\ part = "framing" => FramesAreWhole

\* A slow subscriber is bounded and never stalls the others, its frames are the values
\* published in their order, and no backlog waits for a flush that will not come, unless its
\* send() threw; a frame is that of its batch while values differ and no queue has gaps.
HubDelivers == part = "hub" => HubIsSound
=============================================================================
