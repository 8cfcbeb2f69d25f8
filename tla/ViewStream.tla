----------------------------- MODULE ViewStream -----------------------------
(***************************************************************************)
(* The coordinator's view and its event stream: goroutines that publish a  *)
(* view (Refresh, and enqueueFwActivities after a firewall change), and    *)
(* the /stream connections with their buffered channels.                   *)
(*                                                                         *)
(* A view is the list and the activity log.  A refresh whose request fails *)
(* publishes an empty list, so that NoList is also the list of a guest     *)
(* that does not answer.  The revision number is left out: it orders views *)
(* as finalMu does, and nothing reads it.                                  *)
(***************************************************************************)
EXTENDS Naturals, Sequences

CONSTANTS
  Publishers,   \* goroutines: the refresh ticker, answers, requests of a page
  Tickers,      \* those of them that are the refresh ticker
  Pages,        \* open pages; each holds at most one /stream connection
  Lists,        \* the merged lists a refresh can build
  NoList,       \* the empty list, of a failed refresh and of a new process
  Activities,   \* activity rows
  Buffer,       \* the room of a subscriber's channel, 8 in the code
  LogSize       \* maxFwActivityLines, 20 in the code

ASSUME ViewAssumption ==
  /\ Tickers \subseteq Publishers /\ "free" \notin Publishers
  /\ NoList \in Lists
  /\ Buffer \in Nat \ {0} /\ LogSize \in Nat \ {0}

VARIABLES
  guestList,         \* the list that a refresh would build now
  fwActivity,        \* the activity log
  snap, finalMu,     \* the snapshot; who holds finalMu, or "free"
  pubPc, draft,      \* per publisher: where it is, and its view
  todo,              \* per publisher: the channels it still sends to
  subs, chan,        \* registered channels; what each page's channel holds
  conn,              \* per page: its stream handler
  shown,             \* per page: the last event received
  missed             \* per page, history: the newest event was dropped

logVars    == <<guestList, fwActivity>>
finalVars  == <<snap, finalMu>>
pubVars    == <<pubPc, draft, todo>>
connVars   == <<subs, chan, conn, shown, missed>>
streamVars == <<logVars, finalVars, pubVars, connVars>>

View    == [list : Lists, activity : Seq(Activities)]
NewView == [list |-> NoList, activity |-> <<>>]

StreamInit ==
  /\ guestList \in Lists
  /\ fwActivity = <<>>
  /\ snap = NewView /\ finalMu = "free"
  /\ pubPc = [g \in Publishers |-> "idle"]
  /\ draft = [g \in Publishers |-> NewView]
  /\ todo = [g \in Publishers |-> {}]
  /\ subs = {}
  /\ chan = [p \in Pages |-> <<>>]
  /\ conn = [p \in Pages |-> "off"]
  /\ shown = [p \in Pages |-> NewView]
  /\ missed = [p \in Pages |-> FALSE]

Goes(g, from, to)    == pubPc[g] = from /\ pubPc' = [pubPc EXCEPT ![g] = to]
ConnGoes(p, from, to) == conn[p] = from /\ conn' = [conn EXCEPT ![p] = to]
Put(f, x, value)     == [f EXCEPT ![x] = value]

-----------------------------------------------------------------------------
(* Building a view. *)

\* A save, a lookup or an edit elsewhere; the guest stops or starts to answer.
GuestChanges ==
  /\ guestList' \in Lists \ {guestList}
  /\ UNCHANGED <<fwActivity, finalVars, pubVars, connVars>>

\* Faulty variant: nothing is published unless the list has changed.
RefreshIfChanged(g) ==
  /\ guestList # snap.list
  /\ Goes(g, "idle", "final")
  /\ draft' = Put(draft, g, [NewView EXCEPT !.list = guestList])
  /\ UNCHANGED <<logVars, finalVars, todo, connVars>>

\* Refresh, up to finalizeView.
Refresh(g) ==
  /\ Goes(g, "idle", "final")
  /\ draft' = Put(draft, g, [NewView EXCEPT !.list = guestList])
  /\ UNCHANGED <<logVars, finalVars, todo, connVars>>

\* Faulty variant: the log is never cut.
NewestAll(log) == log

Newest(log) == IF Len(log) > LogSize THEN SubSeq(log, Len(log) - LogSize + 1, Len(log)) ELSE log

\* enqueueFwActivities: the row is logged in a section of its own ...
LogActivity(g) ==
  /\ g \notin Tickers
  /\ Goes(g, "idle", "reread")
  /\ \E row \in Activities : fwActivity' = Newest(Append(fwActivity, row))
  /\ UNCHANGED <<guestList, finalVars, draft, todo, connVars>>

\* ... and the snapshot that is published again is read after it.
Reread(g) ==
  /\ Goes(g, "reread", "final")
  /\ draft' = Put(draft, g, snap)
  /\ UNCHANGED <<logVars, finalVars, todo, connVars>>

-----------------------------------------------------------------------------
(* finalizeView, under finalMu from the copy of the log to the last send. *)

\* Faulty variant: finalizeView without its mutex.
TakeFinalUnlocked(g) ==
  /\ Goes(g, "final", "store")
  /\ finalMu' = g
  /\ draft' = [draft EXCEPT ![g].activity = fwActivity]
  /\ UNCHANGED <<logVars, snap, todo, connVars>>

TakeFinal(g) ==
  /\ finalMu = "free"
  /\ Goes(g, "final", "store")
  /\ finalMu' = g
  /\ draft' = [draft EXCEPT ![g].activity = fwActivity]
  /\ UNCHANGED <<logVars, snap, todo, connVars>>

SetSnapshot(g) ==
  /\ Goes(g, "store", "copy")
  /\ snap' = draft[g]
  /\ UNCHANGED <<logVars, finalMu, draft, todo, connVars>>

\* Faulty variant: a subscriber that still has an event to read is skipped.
CopyIdleSubscribers(g) ==
  /\ Goes(g, "copy", "send")
  /\ todo' = Put(todo, g, {p \in subs : chan[p] = <<>>})
  /\ UNCHANGED <<logVars, finalVars, draft, connVars>>

CopySubscribers(g) ==
  /\ Goes(g, "copy", "send")
  /\ todo' = Put(todo, g, subs)
  /\ UNCHANGED <<logVars, finalVars, draft, connVars>>

Closed(p) == conn[p] = "off"

\* Faulty variant: the panic of a closed channel is not recovered, the goroutine ends here.
SendUnrecovered(g, p) ==
  /\ pubPc[g] = "send" /\ p \in todo[g] /\ ~Closed(p)
  /\ todo' = Put(todo, g, todo[g] \ {p})
  /\ IF Len(chan[p]) < Buffer
     THEN chan' = Put(chan, p, Append(chan[p], draft[g])) /\ missed' = Put(missed, p, FALSE)
     ELSE chan' = chan /\ missed' = Put(missed, p, TRUE)
  /\ UNCHANGED <<logVars, finalVars, pubPc, draft, subs, conn, shown>>

\* One send.  It never waits for room; on a closed channel it panics and is recovered.
Send(g, p) ==
  /\ pubPc[g] = "send" /\ p \in todo[g]
  /\ todo' = Put(todo, g, todo[g] \ {p})
  /\ IF ~Closed(p) /\ Len(chan[p]) < Buffer
     THEN chan' = Put(chan, p, Append(chan[p], draft[g])) /\ missed' = Put(missed, p, FALSE)
     ELSE chan' = chan /\ missed' = Put(missed, p, TRUE)
  /\ UNCHANGED <<logVars, finalVars, pubPc, draft, subs, conn, shown>>

EndFinal(g) ==
  /\ todo[g] = {}
  /\ Goes(g, "send", "idle")
  /\ finalMu' = "free"
  /\ draft' = Put(draft, g, NewView)
  /\ UNCHANGED <<logVars, snap, todo, connVars>>

-----------------------------------------------------------------------------
(* The /stream handler of a page's connection. *)

\* A new connection has a new channel; sends to the page's old, closed one do not reach it.
Subscribe(p) ==
  /\ ConnGoes(p, "off", "subscribed")
  /\ subs' = subs \cup {p}
  /\ missed' = Put(missed, p, FALSE)
  /\ todo' = [g \in Publishers |-> todo[g] \ {p}]
  /\ UNCHANGED <<logVars, finalVars, pubPc, draft, chan, shown>>

\* A write blocks the handler until the connection takes it; the page has it then.
SendSnapshot(p) ==
  /\ ConnGoes(p, "subscribed", "live")
  /\ shown' = Put(shown, p, snap)
  /\ UNCHANGED <<logVars, finalVars, pubVars, subs, chan, missed>>

Forward(p) ==
  /\ conn[p] = "live" /\ chan[p] # <<>>
  /\ shown' = Put(shown, p, Head(chan[p]))
  /\ chan' = Put(chan, p, Tail(chan[p]))
  /\ UNCHANGED <<logVars, finalVars, pubVars, subs, conn, missed>>

\* The connection ends: UnsubscribeSSE takes the channel out of the set ...
Unsubscribe(p) ==
  /\ ConnGoes(p, "live", "leaving")
  /\ subs' = subs \ {p}
  /\ UNCHANGED <<logVars, finalVars, pubVars, chan, shown, missed>>

\* ... and closes it outside that section; what it still holds is lost.
CloseChannel(p) ==
  /\ ConnGoes(p, "leaving", "off")
  /\ chan' = Put(chan, p, <<>>)
  /\ UNCHANGED <<logVars, finalVars, pubVars, subs, shown, missed>>

-----------------------------------------------------------------------------
Publishing(g) ==
  \/ Reread(g) \/ TakeFinal(g) \/ SetSnapshot(g) \/ CopySubscribers(g) \/ EndFinal(g)
  \/ \E p \in Pages : Send(g, p)

Handling(p) == Subscribe(p) \/ SendSnapshot(p) \/ Forward(p) \/ Unsubscribe(p) \/ CloseChannel(p)

StreamNext ==
  \/ GuestChanges
  \/ \E g \in Publishers : Refresh(g) \/ LogActivity(g) \/ Publishing(g)
  \/ \E p \in Pages : Handling(p)

StreamSpec == StreamInit /\ [][StreamNext]_streamVars

\* Goroutines run on, and get finalMu if they wait for it; the ticker does not stop.
\* Nothing is asked of the connection: a write may block for ever.
StreamFairness ==
  /\ \A g \in Publishers : WF_streamVars(Publishing(g)) /\ SF_streamVars(TakeFinal(g))
  /\ \A g \in Tickers : WF_streamVars(Refresh(g))
  /\ \A p \in Pages : WF_streamVars(CloseChannel(p))

FairStreamSpec == StreamSpec /\ StreamFairness

-----------------------------------------------------------------------------
(* Properties. *)

(* Every variable has its type; the log keeps at most the last LogSize rows *)
(* and a channel never holds more than its buffer.                         *)
StreamTypeOK ==
  /\ guestList \in Lists
  /\ fwActivity \in Seq(Activities) /\ Len(fwActivity) <= LogSize
  /\ snap \in View /\ finalMu \in Publishers \cup {"free"}
  /\ pubPc \in [Publishers -> {"idle", "reread", "final", "store", "copy", "send"}]
  /\ draft \in [Publishers -> View]
  /\ todo \in [Publishers -> SUBSET Pages]
  /\ subs \subseteq Pages
  /\ chan \in [Pages -> Seq(View)] /\ \A p \in Pages : Len(chan[p]) <= Buffer
  /\ conn \in [Pages -> {"off", "subscribed", "live", "leaving"}]
  /\ shown \in [Pages -> View]
  /\ missed \in [Pages -> BOOLEAN]

\* Nobody is between a change of the log and the copy that publishes it.
LogPublished == \A g \in Publishers : pubPc[g] \notin {"reread", "final"}

(* When no publication is under way, the snapshot has the whole activity   *)
(* log: however refreshes and logged rows overlap, no row is left out of   *)
(* the snapshot by a publication that copied the log earlier.              *)
ActivityComplete == finalMu = "free" /\ LogPublished => snap.activity = fwActivity

(* When no publication is under way, a connected page whose channel is     *)
(* empty has the snapshot as its last event, unless its buffer was full    *)
(* when that was sent.  So a connection that subscribes, reads the         *)
(* snapshot and gets events in any order with a publication ends up with   *)
(* the newer of the two.                                                   *)
LivePageIsCurrent ==
  \A p \in Pages :
    finalMu = "free" /\ conn[p] = "live" /\ ~missed[p] /\ chan[p] = <<>>
      => shown[p] = snap

FirewallQuiet == \A g \in Publishers \ Tickers : pubPc[g] = "idle"

(* A goroutine that is about to publish gets finalMu and gets through its  *)
(* sends, though connections block or are closed at any time: neither a    *)
(* full nor a closed channel holds it up.                                  *)
EveryPublicationEnds ==
  \A g \in Publishers : pubPc[g] = "final" ~> pubPc[g] = "idle"

(* A connected page that keeps reading ends up with the guest's list once  *)
(* that stays: the ticker makes up for dropped events and for a list that  *)
(* enqueueFwActivities has published again after a newer one.  As long as  *)
(* the firewall changes, an old list can be published again and again.     *)
PageCatchesUp ==
  \A p \in Pages : \A l \in Lists :
    <>[](guestList = l /\ conn[p] = "live" /\ FirewallQuiet) /\ []<>(chan[p] = <<>>)
      => <>[](shown[p].list = l)
=============================================================================
