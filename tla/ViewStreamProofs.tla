-------------------------- MODULE ViewStreamProofs --------------------------
(***************************************************************************)
(* Proofs about ViewStream: types, that no publication leaves an activity  *)
(* row out, and that a page which is up to date shows the snapshot.        *)
(***************************************************************************)
EXTENDS ViewStream, SequenceTheorems, TLAPS

-----------------------------------------------------------------------------
(* The inductive invariant. *)

Inside(g) == pubPc[g] \in {"store", "copy", "send"}

\* finalMu is held exactly by the publisher inside finalizeView.
FinalMutex == \A g \in Publishers : Inside(g) <=> finalMu = g

\* Only a publisher that sends has channels to send to, and it sends the snapshot.
SendsSnapshot ==
  \A g \in Publishers :
    /\ pubPc[g] # "send" => todo[g] = {}
    /\ pubPc[g] \in {"copy", "send"} => draft[g] = snap

\* The holder of finalMu copied the log as it is, unless a publication is still to come.
LogCarried ==
  LogPublished =>
    /\ finalMu = "free" => snap.activity = fwActivity
    /\ \A g \in Publishers :
         /\ pubPc[g] = "store" => draft[g].activity = fwActivity
         /\ pubPc[g] \in {"copy", "send"} => snap.activity = fwActivity

Connected(p) == conn[p] \in {"subscribed", "live"}

\* The registered channels are those of the connected pages; a closed one is empty.
SubsAreConnected ==
  \A p \in Pages : (p \in subs <=> Connected(p)) /\ (Closed(p) => chan[p] = <<>>)

\* The snapshot is still on its way to p.
Underway(p) == \E g \in Publishers : pubPc[g] = "copy" \/ p \in todo[g]

\* Otherwise it is the last event that p has or will read.
SnapshotArrived ==
  \A p \in Pages :
    Connected(p) /\ ~missed[p] /\ ~Underway(p) =>
      /\ chan[p] # <<>> => chan[p][Len(chan[p])] = snap
      /\ chan[p] = <<>> /\ conn[p] = "live" => shown[p] = snap

StreamInv ==
  StreamTypeOK /\ FinalMutex /\ SendsSnapshot /\ LogCarried /\ SubsAreConnected /\ SnapshotArrived

-----------------------------------------------------------------------------
(* Types. *)

(* The cut log has only rows of the log, at most LogSize of them           *)
(* (enqueueFwActivities).                                                  *)
LEMMA NewestBounded ==
  ASSUME NEW log \in Seq(Activities)
  PROVE  Newest(log) \in Seq(Activities) /\ Len(Newest(log)) <= LogSize
BY ViewAssumption DEF Newest

(* A new process's view is a view.                                         *)
LEMMA NewIsView == NewView \in View
BY ViewAssumption DEF NewView, View

(* Every step keeps the types and the bounds of log and channels.          *)
LEMMA TypeStep ==
  ASSUME StreamTypeOK, [StreamNext]_streamVars
  PROVE  StreamTypeOK'
<1> USE ViewAssumption, NewIsView DEF StreamTypeOK
<1>1. CASE GuestChanges
  BY <1>1 DEF GuestChanges, finalVars, pubVars, connVars
<1>2. ASSUME NEW g \in Publishers, Refresh(g)
      PROVE  StreamTypeOK'
  BY <1>2 DEF Refresh, Goes, Put, View, NewView, logVars, finalVars, connVars
<1>3. ASSUME NEW g \in Publishers, Reread(g)
      PROVE  StreamTypeOK'
  BY <1>3 DEF Reread, Goes, Put, logVars, finalVars, connVars
<1>4. ASSUME NEW g \in Publishers, TakeFinal(g)
      PROVE  StreamTypeOK'
  BY <1>4 DEF TakeFinal, Goes, View, logVars, connVars
<1>5. ASSUME NEW g \in Publishers, SetSnapshot(g)
      PROVE  StreamTypeOK'
  BY <1>5 DEF SetSnapshot, Goes, logVars, connVars
<1>6. ASSUME NEW g \in Publishers, CopySubscribers(g)
      PROVE  StreamTypeOK'
  BY <1>6 DEF CopySubscribers, Goes, Put, logVars, finalVars, connVars
<1>7. ASSUME NEW g \in Publishers, NEW p \in Pages, Send(g, p)
      PROVE  StreamTypeOK'
  <2>1. CASE ~Closed(p) /\ Len(chan[p]) < Buffer
    <3>1. Append(chan[p], draft[g]) \in Seq(View) /\ Len(Append(chan[p], draft[g])) <= Buffer
      BY <2>1
    <3> QED
      BY <1>7, <2>1, <3>1 DEF Send, Put, logVars, finalVars
  <2>2. CASE ~(~Closed(p) /\ Len(chan[p]) < Buffer)
    BY <1>7, <2>2 DEF Send, Put, logVars, finalVars
  <2> QED
    BY <2>1, <2>2
<1>8. ASSUME NEW g \in Publishers, EndFinal(g)
      PROVE  StreamTypeOK'
  BY <1>8 DEF EndFinal, Goes, Put, logVars, connVars
<1>9. ASSUME NEW p \in Pages, Subscribe(p)
      PROVE  StreamTypeOK'
  BY <1>9 DEF Subscribe, ConnGoes, Put, logVars, finalVars, pubVars
<1>10. ASSUME NEW p \in Pages, SendSnapshot(p)
       PROVE  StreamTypeOK'
  BY <1>10 DEF SendSnapshot, ConnGoes, Put, logVars, finalVars, pubVars
<1>11. ASSUME NEW p \in Pages, Forward(p)
       PROVE  StreamTypeOK'
  BY <1>11 DEF Forward, Put, logVars, finalVars, pubVars
<1>12. ASSUME NEW p \in Pages, Unsubscribe(p)
       PROVE  StreamTypeOK'
  BY <1>12 DEF Unsubscribe, ConnGoes, logVars, finalVars, pubVars
<1>13. ASSUME NEW p \in Pages, CloseChannel(p)
       PROVE  StreamTypeOK'
  BY <1>13 DEF CloseChannel, ConnGoes, Put, logVars, finalVars, pubVars
<1>14. CASE UNCHANGED streamVars
  BY <1>14 DEF streamVars, logVars, finalVars, pubVars, connVars
<1>15. ASSUME NEW g \in Publishers, LogActivity(g)
       PROVE  StreamTypeOK'
  <2>1. PICK row \in Activities : fwActivity' = Newest(Append(fwActivity, row))
    BY <1>15 DEF LogActivity
  <2>2. Append(fwActivity, row) \in Seq(Activities)
    OBVIOUS
  <2>3. fwActivity' \in Seq(Activities) /\ Len(fwActivity') <= LogSize
    BY <2>1, <2>2, NewestBounded
  <2> QED
    BY <1>15, <2>3 DEF LogActivity, Goes, finalVars, connVars
<1> QED
  BY <1>1, <1>2, <1>3, <1>4, <1>5, <1>6, <1>7, <1>8, <1>9, <1>10, <1>11, <1>12, <1>13, <1>14, <1>15
  DEF StreamNext, Publishing, Handling

-----------------------------------------------------------------------------
(* Publications, one at a time. *)

Published == FinalMutex /\ SendsSnapshot /\ LogCarried

(* finalMu is held from the copy of the log to the last send, so that what *)
(* the holder copied is still the log when nobody has yet to publish       *)
(* (finalizeView, enqueueFwActivities).                                    *)
LEMMA PublishedStep ==
  ASSUME StreamTypeOK, Published, [StreamNext]_streamVars
  PROVE  Published'
<1> USE ViewAssumption DEF StreamTypeOK, Published, FinalMutex, SendsSnapshot, LogCarried, LogPublished, Inside
<1>1. CASE GuestChanges
  BY <1>1 DEF GuestChanges, finalVars, pubVars
<1>2. ASSUME NEW g \in Publishers, Refresh(g)
      PROVE  Published'
  BY <1>2 DEF Refresh, Goes, Put, logVars, finalVars
<1>3. ASSUME NEW g \in Publishers, LogActivity(g)
      PROVE  Published'
  BY <1>3 DEF LogActivity, Goes, finalVars
<1>4. ASSUME NEW g \in Publishers, Reread(g)
      PROVE  Published'
  BY <1>4 DEF Reread, Goes, Put, logVars, finalVars
<1>5. ASSUME NEW g \in Publishers, TakeFinal(g)
      PROVE  Published'
  BY <1>5 DEF TakeFinal, Goes, View, logVars
<1>6. ASSUME NEW g \in Publishers, SetSnapshot(g)
      PROVE  Published'
  BY <1>6 DEF SetSnapshot, Goes, logVars
<1>7. ASSUME NEW g \in Publishers, CopySubscribers(g)
      PROVE  Published'
  BY <1>7 DEF CopySubscribers, Goes, Put, logVars, finalVars
<1>8. ASSUME NEW g \in Publishers, NEW p \in Pages, Send(g, p)
      PROVE  Published'
  BY <1>8 DEF Send, Put, logVars, finalVars
<1>9. ASSUME NEW g \in Publishers, EndFinal(g)
      PROVE  Published'
  BY <1>9 DEF EndFinal, Goes, Put, logVars
<1>10. ASSUME NEW p \in Pages, Subscribe(p)
       PROVE  Published'
  BY <1>10 DEF Subscribe, logVars, finalVars
<1>11. CASE (\E p \in Pages : Handling(p) /\ ~Subscribe(p)) \/ UNCHANGED streamVars
  BY <1>11 DEF Handling, SendSnapshot, Forward, Unsubscribe, CloseChannel, streamVars, logVars, finalVars, pubVars
<1> QED
  BY <1>1, <1>2, <1>3, <1>4, <1>5, <1>6, <1>7, <1>8, <1>9, <1>10, <1>11 DEF StreamNext, Publishing

-----------------------------------------------------------------------------
(* Connections. *)

(* A channel is registered while its page is connected, and is closed only *)
(* after it was taken out (SubscribeSSE, UnsubscribeSSE).                  *)
LEMMA SubsStep ==
  ASSUME StreamTypeOK, SubsAreConnected, [StreamNext]_streamVars
  PROVE  SubsAreConnected'
<1> USE DEF StreamTypeOK, SubsAreConnected, Connected, Closed
<1>1. CASE GuestChanges \/ UNCHANGED streamVars
  BY <1>1 DEF GuestChanges, streamVars, connVars
<1>2. ASSUME NEW g \in Publishers, Refresh(g)
      PROVE  SubsAreConnected'
  BY <1>2 DEF Refresh, connVars
<1>3. ASSUME NEW g \in Publishers, LogActivity(g)
      PROVE  SubsAreConnected'
  BY <1>3 DEF LogActivity, connVars
<1>4. ASSUME NEW g \in Publishers, NEW p \in Pages, Send(g, p)
      PROVE  SubsAreConnected'
  BY <1>4 DEF Send, Put
<1>5. ASSUME NEW p \in Pages, Subscribe(p)
      PROVE  SubsAreConnected'
  BY <1>5 DEF Subscribe, ConnGoes
<1>6. ASSUME NEW p \in Pages, SendSnapshot(p)
      PROVE  SubsAreConnected'
  BY <1>6 DEF SendSnapshot, ConnGoes
<1>7. ASSUME NEW p \in Pages, Forward(p)
      PROVE  SubsAreConnected'
  BY <1>7 DEF Forward, Put
<1>8. ASSUME NEW p \in Pages, Unsubscribe(p)
      PROVE  SubsAreConnected'
  BY <1>8 DEF Unsubscribe, ConnGoes
<1>9. ASSUME NEW p \in Pages, CloseChannel(p)
      PROVE  SubsAreConnected'
  BY <1>9 DEF CloseChannel, ConnGoes, Put
<1>10. ASSUME NEW g \in Publishers,
              Reread(g) \/ TakeFinal(g) \/ SetSnapshot(g) \/ CopySubscribers(g) \/ EndFinal(g)
       PROVE  SubsAreConnected'
  BY <1>10 DEF Reread, TakeFinal, SetSnapshot, CopySubscribers, EndFinal, connVars
<1> QED
  BY <1>1, <1>2, <1>3, <1>4, <1>5, <1>6, <1>7, <1>8, <1>9, <1>10 DEF StreamNext, Publishing, Handling

(* What a page last received or will read last is the snapshot, once the   *)
(* sends of it are over and none was dropped (broadcast, /stream handler). *)
LEMMA ArrivedStep ==
  ASSUME StreamTypeOK, FinalMutex, SendsSnapshot, SubsAreConnected, SnapshotArrived,
         [StreamNext]_streamVars
  PROVE  SnapshotArrived'
<1> USE DEF StreamTypeOK, SnapshotArrived, Connected, Underway
<1>1. CASE GuestChanges \/ UNCHANGED streamVars
  BY <1>1 DEF GuestChanges, streamVars, finalVars, pubVars, connVars
<1>2. ASSUME NEW g \in Publishers, Refresh(g) \/ LogActivity(g) \/ Reread(g) \/ TakeFinal(g)
      PROVE  SnapshotArrived'
  <2>1. UNCHANGED <<snap, todo, connVars>> /\ \A h \in Publishers : pubPc'[h] = "copy" <=> pubPc[h] = "copy"
    BY <1>2 DEF Refresh, LogActivity, Reread, TakeFinal, Goes, finalVars
  <2> QED
    BY <2>1 DEF connVars
<1>3. ASSUME NEW g \in Publishers, SetSnapshot(g)
      PROVE  SnapshotArrived'
  <2>1. pubPc'[g] = "copy"
    BY <1>3 DEF SetSnapshot, Goes
  <2> QED
    BY <2>1
<1>4. ASSUME NEW g \in Publishers, CopySubscribers(g)
      PROVE  SnapshotArrived'
  <2>1. \A p \in Pages : Connected(p) => p \in todo'[g]
    BY <1>4 DEF CopySubscribers, Put, SubsAreConnected
  <2>2. \A p \in Pages : Connected(p)' <=> Connected(p)
    BY <1>4 DEF CopySubscribers, connVars
  <2> QED
    BY <2>1, <2>2
<1>5. ASSUME NEW g \in Publishers, NEW p \in Pages, Send(g, p)
      PROVE  SnapshotArrived'
  <2>1. draft[g] = snap /\ snap' = snap /\ UNCHANGED <<pubPc, conn, shown>>
    BY <1>5 DEF Send, SendsSnapshot, finalVars
  <2>2. ASSUME NEW q \in Pages, q # p
        PROVE  /\ chan'[q] = chan[q] /\ missed'[q] = missed[q]
               /\ \A h \in Publishers : q \in todo'[h] <=> q \in todo[h]
    BY <1>5, <2>2 DEF Send, Put
  <2>3. CASE ~Closed(p) /\ Len(chan[p]) < Buffer
    <3>1. chan'[p] = Append(chan[p], snap)
      BY <1>5, <2>1, <2>3 DEF Send, Put
    <3>2. chan'[p] # <<>> /\ chan'[p][Len(chan'[p])] = snap
      <4> HIDE DEF StreamTypeOK
      <4>1. chan[p] \in Seq(View) /\ snap \in View
        BY DEF StreamTypeOK
      <4> QED
        BY <3>1, <4>1, AppendProperties
    <3> QED
      BY <2>1, <2>2, <3>2
  <2>4. CASE ~(~Closed(p) /\ Len(chan[p]) < Buffer)
    <3>1. missed'[p]
      BY <1>5, <2>4 DEF Send, Put
    <3> QED
      BY <2>1, <2>2, <3>1
  <2> QED
    BY <2>3, <2>4
<1>6. ASSUME NEW g \in Publishers, EndFinal(g)
      PROVE  SnapshotArrived'
  <2>1. UNCHANGED <<snap, todo, connVars>> /\ \A h \in Publishers : pubPc'[h] = "copy" <=> pubPc[h] = "copy"
    BY <1>6 DEF EndFinal, Goes
  <2> QED
    BY <2>1 DEF connVars
<1>7. ASSUME NEW p \in Pages, Subscribe(p)
      PROVE  SnapshotArrived'
  <2>1. chan'[p] = <<>> /\ conn'[p] = "subscribed"
    BY <1>7 DEF Subscribe, ConnGoes, SubsAreConnected, Closed
  <2>2. \A q \in Pages : q # p => conn'[q] = conn[q] /\ missed'[q] = missed[q]
    BY <1>7 DEF Subscribe, ConnGoes, Put
  <2> QED
    BY <1>7, <2>1, <2>2 DEF Subscribe, finalVars, pubVars
<1>8. ASSUME NEW p \in Pages, SendSnapshot(p)
      PROVE  SnapshotArrived'
  BY <1>8 DEF SendSnapshot, ConnGoes, Put, finalVars, pubVars
<1>9. ASSUME NEW p \in Pages, Forward(p)
      PROVE  SnapshotArrived'
  <2>1. \A q \in Pages : q # p => chan'[q] = chan[q] /\ shown'[q] = shown[q]
    BY <1>9 DEF Forward, Put
  <2>2. UNCHANGED <<snap, pubPc, todo, conn, missed>>
    BY <1>9 DEF Forward, finalVars, pubVars
  <2>3. chan[p] # <<>> /\ chan'[p] = Tail(chan[p]) /\ shown'[p] = Head(chan[p])
    BY <1>9 DEF Forward, Put
  <2>4. chan[p] \in Seq(View)
    OBVIOUS
  <2>5. chan'[p] # <<>> => chan'[p][Len(chan'[p])] = chan[p][Len(chan[p])]
    BY <2>3, <2>4
  <2>6. chan'[p] = <<>> => shown'[p] = chan[p][Len(chan[p])]
    BY <2>3, <2>4
  <2> QED
    BY <2>1, <2>2, <2>3, <2>5, <2>6
<1>10. ASSUME NEW p \in Pages, Unsubscribe(p) \/ CloseChannel(p)
       PROVE  SnapshotArrived'
  <2>1. conn'[p] \notin {"subscribed", "live"} /\ UNCHANGED <<snap, pubPc, todo, shown, missed>>
    BY <1>10 DEF Unsubscribe, CloseChannel, ConnGoes, finalVars, pubVars
  <2>2. \A q \in Pages : q # p => chan'[q] = chan[q] /\ conn'[q] = conn[q]
    BY <1>10 DEF Unsubscribe, CloseChannel, ConnGoes, Put
  <2> QED
    BY <2>1, <2>2
<1> QED
  BY <1>1, <1>2, <1>3, <1>4, <1>5, <1>6, <1>7, <1>8, <1>9, <1>10 DEF StreamNext, Publishing, Handling

-----------------------------------------------------------------------------
(* The theorems. *)

(* The invariant holds in a new process without connections.               *)
LEMMA StreamInvInit == StreamInit => StreamInv
<1> SUFFICES ASSUME StreamInit PROVE StreamInv
  OBVIOUS
<1>1. StreamTypeOK
  BY ViewAssumption, NewIsView DEF StreamInit, StreamTypeOK
<1>2. Published
  BY ViewAssumption
  DEF StreamInit, Published, FinalMutex, SendsSnapshot, LogCarried, Inside, NewView
<1>3. SubsAreConnected /\ SnapshotArrived
  BY DEF StreamInit, SubsAreConnected, SnapshotArrived, Connected, Closed
<1> QED
  BY <1>1, <1>2, <1>3 DEF StreamInv, Published

(* Every step keeps it.                                                    *)
LEMMA StreamInvStep == StreamInv /\ [StreamNext]_streamVars => StreamInv'
BY TypeStep, PublishedStep, SubsStep, ArrivedStep DEF StreamInv, Published

(* The inductive invariant of the view and its stream, for any number of   *)
(* publishers and pages and any size of buffers and log.                   *)
THEOREM StreamInvariant == StreamSpec => []StreamInv
BY StreamInvInit, StreamInvStep, PTL DEF StreamSpec

(* Type correctness: the log keeps at most LogSize rows, a channel never   *)
(* more than its buffer (enqueueFwActivities, broadcast).                  *)
THEOREM StreamTypeCorrect == StreamSpec => []StreamTypeOK
<1>1. StreamInv => StreamTypeOK
  BY DEF StreamInv
<1> QED
  BY <1>1, StreamInvariant, PTL

(* However refreshes and logged rows overlap, no publication leaves a row  *)
(* of the activity log out of the snapshot (finalizeView).                 *)
THEOREM ActivityIsComplete == StreamSpec => []ActivityComplete
<1>1. StreamInv => ActivityComplete
  BY DEF StreamInv, LogCarried, ActivityComplete
<1> QED
  BY <1>1, StreamInvariant, PTL

(* A page that has read its channel and missed no event shows the          *)
(* snapshot, though it subscribed before it read one (/stream handler).    *)
THEOREM LivePageShowsSnapshot == StreamSpec => []LivePageIsCurrent
<1>1. StreamInv => LivePageIsCurrent
  <2> SUFFICES ASSUME StreamInv, NEW p \in Pages,
                      finalMu = "free", conn[p] = "live", ~missed[p], chan[p] = <<>>
               PROVE  shown[p] = snap
    BY DEF LivePageIsCurrent
  <2>1. \A g \in Publishers : ~Inside(g)
    BY ViewAssumption DEF StreamInv, FinalMutex
  <2>2. ~Underway(p)
    BY <2>1 DEF Underway, Inside, StreamInv, SendsSnapshot
  <2> QED
    BY <2>2 DEF StreamInv, SnapshotArrived, Connected
<1> QED
  BY <1>1, StreamInvariant, PTL
=============================================================================
