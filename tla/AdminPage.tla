----------------------------- MODULE AdminPage ------------------------------
(***************************************************************************)
(* The pages in operators' browsers and the requests they make: the list   *)
(* as rows and as text, a save in flight, the states that arrive during    *)
(* it.  What ViewStream shows of publications and of the stream is used    *)
(* here: publications do not overlap, and an event is lost only when a     *)
(* page lags behind by more than its connection holds.                     *)
(*                                                                         *)
(* A list maps each name to what its line in the text says.                *)
(***************************************************************************)
EXTENDS Naturals, Sequences

CONSTANTS
  Pages, Names,
  Ticker,            \* the goroutine of the periodic refresh
  Answerers,         \* goroutines that apply DNS answers
  FeedSize,          \* events that a connection and its channel hold
  MaxDisturbances   \* bound on requests that fail, replies lost, changes elsewhere, fetches, logged answers

ASSUME PageAssumption ==
  /\ Ticker \notin Pages /\ Answerers \cap (Pages \cup {Ticker}) = {}
  /\ FeedSize \in Nat \ {0}
  /\ MaxDisturbances \in Nat

Status == {"absent", "blocked", "allowed"}
Lists  == [Names -> Status]
NoList == [n \in Names |-> "absent"]

VARIABLES
  guestList,     \* the guest's list, with the names looked up
  snap,          \* the list of the coordinator's snapshot
  building,      \* per goroutine that publishes: the list it read, if any
  feed, conn,    \* per page: events under way, whether its stream is open
  request,       \* per page: its /api/save-list request
  fetched,       \* per page: the answer to its /api/snapshot request
  page,          \* per page: the script's variables and what it shows
  disturbances

\* A save publishes for its page.
Publishers == Pages \cup {Ticker} \cup Answerers

serverVars == <<guestList, snap, building>>
streamVars == <<feed, conn>>
vars == <<serverVars, streamVars, request, fetched, page, disturbances>>

\* `lost` is a history field: the rows are those of a save whose reply never came.
Page == [ text : Lists, clean : Lists, rows : Lists, locked : BOOLEAN, dirty : BOOLEAN,
          saving : BOOLEAN, pending : Seq(Lists), lost : BOOLEAN ]

NewPage == [ text |-> NoList, clean |-> NoList, rows |-> NoList, locked |-> FALSE,
             dirty |-> FALSE, saving |-> FALSE, pending |-> <<>>, lost |-> FALSE ]

NoRequest == [state |-> "none", text |-> NoList]

\* A save is posted, stored, its firewall changes logged if there are any, and answered.
RequestState == {"none", "posted", "logging", "stored", "ok", "failed"}

Init ==
  /\ guestList \in Lists
  /\ snap = NoList
  /\ building = [g \in Publishers |-> <<>>]
  /\ feed = [p \in Pages |-> <<>>]
  /\ conn = [p \in Pages |-> FALSE]
  /\ request = [p \in Pages |-> NoRequest]
  /\ fetched = [p \in Pages |-> <<>>]
  /\ page = [p \in Pages |-> NewPage]
  /\ disturbances = 0

Disturbs == disturbances < MaxDisturbances /\ disturbances' = disturbances + 1
Put(f, x, value) == [f EXCEPT ![x] = value]

-----------------------------------------------------------------------------
(* The script's functions, as functions of the page. *)

Named(list) == {n \in Names : list[n] # "absent"}

\* A list of the server's, or of a save that succeeded, taken over in text and rows.
TakeOver(pg, list) ==
  [pg EXCEPT !.text = list, !.clean = list, !.rows = list, !.locked = pg.saving, !.lost = FALSE]

\* Faulty variant: a state that brings no other list is not drawn.
ApplyOtherState(pg, list) ==
  IF pg.saving THEN [pg EXCEPT !.pending = <<list>>]
  ELSE IF pg.dirty \/ list = pg.clean THEN pg
  ELSE TakeOver(pg, list)

\* applyState: a save in flight puts the state off, unsaved text leaves it out.
ApplyState(pg, list) ==
  IF pg.saving THEN [pg EXCEPT !.pending = <<list>>]
  ELSE IF pg.dirty THEN pg
  ELSE TakeOver(pg, list)

\* Faulty variant: the state put off is taken over whatever was typed meanwhile.
SaveEndedOverwrites(pg) ==
  LET ended == [pg EXCEPT !.saving = FALSE, !.pending = <<>>]
  IN IF pg.pending = <<>> THEN ended
     ELSE TakeOver([ended EXCEPT !.dirty = FALSE], Head(pg.pending))

\* The `finally` of saveAllowlistText.
SaveEnded(pg) ==
  LET ended == [pg EXCEPT !.saving = FALSE, !.pending = <<>>]
  IN IF pg.pending = <<>> THEN ended ELSE ApplyState(ended, Head(pg.pending))

\* Faulty variants: no rollback of the rows; no `finally`.
SaveFailedKeepsRows(pg) == SaveEnded(pg)
SaveBrokenForGood(pg)   == [pg EXCEPT !.lost = TRUE]

\* The rows are drawn before saveInFlight is reset: their buttons stay disabled.
Saved(pg, text) == SaveEnded(TakeOver([pg EXCEPT !.dirty = FALSE], text))
SaveFailed(pg)  == SaveEnded([pg EXCEPT !.rows = pg.clean, !.locked = TRUE])

\* fetch itself throws: only the `finally` runs.
SaveBroken(pg) == SaveEnded([pg EXCEPT !.lost = TRUE])

Toggled(list, n) ==
  [list EXCEPT ![n] = IF @ = "allowed" THEN "blocked" ELSE "allowed"]

-----------------------------------------------------------------------------
(* The operator at the page. *)

Type(p, text) ==
  /\ page' = [page EXCEPT ![p].text = text, ![p].dirty = TRUE]
  /\ UNCHANGED <<serverVars, streamVars, request, fetched, disturbances>>

Revert(p) ==
  /\ page[p].dirty
  /\ page' = [page EXCEPT ![p] = TakeOver([@ EXCEPT !.dirty = FALSE], @.clean)]
  /\ UNCHANGED <<serverVars, streamVars, request, fetched, disturbances>>

Posts(p, text) ==
  /\ ~page[p].saving
  /\ request' = Put(request, p, [state |-> "posted", text |-> text])
  /\ page' = [page EXCEPT ![p].saving = TRUE, ![p].rows = text, ![p].locked = TRUE]
  /\ UNCHANGED <<serverVars, streamVars, fetched, disturbances>>

\* The save button is enabled by typing, unless the text is the old one again.
ClickSave(p) ==
  /\ page[p].dirty /\ page[p].text # page[p].clean
  /\ Posts(p, page[p].text)

Toggle(p, n) ==
  /\ ~page[p].dirty /\ ~page[p].locked
  /\ n \in Named(page[p].rows) \cap Named(page[p].clean)
  /\ Posts(p, Toggled(page[p].clean, n))

-----------------------------------------------------------------------------
(* What reaches the page. *)

Receive(p) ==
  /\ feed[p] # <<>>
  /\ page' = [page EXCEPT ![p] = ApplyState(@, Head(feed[p]))]
  /\ feed' = Put(feed, p, Tail(feed[p]))
  /\ UNCHANGED <<serverVars, conn, request, fetched, disturbances>>

\* GET /api/snapshot: the snapshot of one moment, applied at a later one.
AnswerFetch(p) ==
  /\ fetched[p] = <<>> /\ Disturbs
  /\ fetched' = Put(fetched, p, <<snap>>)
  /\ UNCHANGED <<serverVars, streamVars, request, page>>

ReceiveFetch(p) ==
  /\ fetched[p] # <<>>
  /\ page' = [page EXCEPT ![p] = ApplyState(@, Head(fetched[p]))]
  /\ fetched' = Put(fetched, p, <<>>)
  /\ UNCHANGED <<serverVars, streamVars, request, disturbances>>

Answered(p, outcome) ==
  /\ page' = Put(page, p, outcome)
  /\ request' = Put(request, p, NoRequest)
  /\ UNCHANGED <<serverVars, streamVars, fetched>>

ReceiveSaved(p) ==
  /\ request[p].state = "ok"
  /\ Answered(p, Saved(page[p], request[p].text))
  /\ UNCHANGED disturbances

ReceiveFailed(p) ==
  /\ request[p].state = "failed"
  /\ Answered(p, SaveFailed(page[p]))
  /\ UNCHANGED disturbances

\* The reply is lost, whatever it was.
LoseReply(p) ==
  /\ request[p].state \in {"ok", "failed"} /\ Disturbs
  /\ Answered(p, SaveBroken(page[p]))

-----------------------------------------------------------------------------
(* The server. *)

\* A name the text lacks stays a suggestion if the server has seen it looked up.
AfterSave(text) ==
  {l \in Lists : \A n \in Names : \/ l[n] = text[n]
                                  \/ text[n] = "absent" /\ guestList[n] # "absent" /\ l[n] = "blocked"}

\* The rules it has opened or revoked are logged, if there are any.
ServeSave(p) ==
  /\ request[p].state = "posted"
  /\ guestList' \in AfterSave(request[p].text)
  /\ \E next \in {"logging", "stored"} : request' = [request EXCEPT ![p].state = next]
  /\ UNCHANGED <<snap, building, streamVars, fetched, page, disturbances>>

\* An error is reported, also when it was only the reply to the PUT that was lost.
RejectSave(p) ==
  /\ request[p].state = "posted" /\ Disturbs
  /\ guestList' \in {guestList} \cup AfterSave(request[p].text)
  /\ request' = [request EXCEPT ![p].state = "failed"]
  /\ UNCHANGED <<snap, building, streamVars, fetched, page>>

\* Refresh reads the list, or fails and builds a view without one.
BuildView(g) ==
  /\ building[g] = <<>>
  /\ \/ building' = Put(building, g, <<guestList>>) /\ UNCHANGED disturbances
     \/ building' = Put(building, g, <<NoList>>) /\ Disturbs
  /\ UNCHANGED <<guestList, snap, streamVars, request, fetched, page>>

\* enqueueFwActivities: once its rows are logged, the snapshot of now is published again.
Reread(g) ==
  /\ building[g] = <<>>
  /\ building' = Put(building, g, <<snap>>)
  /\ UNCHANGED <<guestList, snap, streamVars, request, fetched, page>>

\* A save goes on to its refresh after the rows, and replies after the refresh.
Published(state) == IF state = "logging" THEN "stored" ELSE "ok"

\* What was read is published later.
Publish(g) ==
  /\ building[g] # <<>>
  /\ snap' = Head(building[g])
  /\ building' = Put(building, g, <<>>)
  /\ feed' = [p \in Pages |-> IF conn[p] /\ Len(feed[p]) < FeedSize THEN Append(feed[p], snap') ELSE feed[p]]
  /\ request' = IF g \in Pages THEN [request EXCEPT ![g].state = Published(@)] ELSE request
  /\ UNCHANGED <<guestList, conn, fetched, page, disturbances>>

Connect(p) ==
  /\ ~conn[p]
  /\ conn' = Put(conn, p, TRUE)
  /\ feed' = Put(feed, p, <<snap>>)
  /\ UNCHANGED <<serverVars, request, fetched, page, disturbances>>

Disconnect(p) ==
  /\ conn[p]
  /\ conn' = Put(conn, p, FALSE)
  /\ feed' = Put(feed, p, <<>>)
  /\ UNCHANGED <<serverVars, request, fetched, page, disturbances>>

\* A lookup adds a suggestion, the list is edited in the Proxmox UI or by another page.
GuestChanges ==
  /\ guestList' \in Lists \ {guestList}
  /\ Disturbs
  /\ UNCHANGED <<snap, building, streamVars, request, fetched, page>>

-----------------------------------------------------------------------------
SaveLogs(p)      == request[p].state = "logging" /\ (Publish(p) \/ (Reread(p) /\ UNCHANGED disturbances))
SaveRefreshes(p) == request[p].state = "stored" /\ (BuildView(p) \/ Publish(p))
Serving(p)  == ServeSave(p) \/ RejectSave(p) \/ SaveLogs(p) \/ SaveRefreshes(p)
AnswerLogs(a) == Publish(a) \/ (Reread(a) /\ Disturbs)
Replied(p)  == ReceiveSaved(p) \/ ReceiveFailed(p) \/ LoseReply(p)
Ticks       == BuildView(Ticker) \/ Publish(Ticker)
Operator(p) == Revert(p) \/ ClickSave(p) \/ (\E text \in Lists : Type(p, text)) \/ (\E n \in Names : Toggle(p, n))
Network(p)  == Receive(p) \/ AnswerFetch(p) \/ ReceiveFetch(p) \/ Connect(p) \/ Disconnect(p)

Next ==
  \/ Ticks \/ GuestChanges
  \/ \E a \in Answerers : AnswerLogs(a)
  \/ \E p \in Pages : Operator(p) \/ Network(p) \/ Serving(p) \/ Replied(p)

Spec == Init /\ [][Next]_vars

\* The server's goroutines run on, the ticker does not stop, a browser handles what has arrived.
Fairness ==
  /\ WF_vars(Ticks)
  /\ \A p \in Pages : WF_vars(Serving(p)) /\ WF_vars(Replied(p)) /\ WF_vars(Receive(p)) /\ WF_vars(ReceiveFetch(p))

FairSpec == Spec /\ Fairness

-----------------------------------------------------------------------------
(* Properties. *)

(* Every variable has its type, and the script is saving exactly while it  *)
(* has a request that was not answered: saveInFlight is never left behind. *)
PageTypeOK ==
  /\ guestList \in Lists /\ snap \in Lists
  /\ building \in [Publishers -> Seq(Lists)]
  /\ feed \in [Pages -> Seq(Lists)] /\ \A p \in Pages : Len(feed[p]) <= FeedSize
  /\ conn \in [Pages -> BOOLEAN]
  /\ request \in [Pages -> [state : RequestState, text : Lists]]
  /\ fetched \in [Pages -> Seq(Lists)]
  /\ page \in [Pages -> Page]
  /\ \A p \in Pages : page[p].saving <=> request[p].state # "none"
  /\ disturbances \in Nat

(* What the page shows besides unsaved text is the last list it took over: *)
(* rows changed for a save are rolled back if it fails, whatever arrived   *)
(* meanwhile.  Only the rows of a save whose reply is lost may differ.     *)
RowsAreTheList ==
  \A p \in Pages :
    /\ ~page[p].dirty => page[p].text = page[p].clean
    /\ ~page[p].saving /\ ~page[p].lost => page[p].rows = page[p].clean

(* Text the operator types is replaced only by a revert or by a save that  *)
(* succeeded, never by a state that arrives, that was put off during a     *)
(* save, or by a save that failed.  (A save that succeeds also replaces    *)
(* what was typed while it was in flight.)                                 *)
TypedTextKept ==
  [][\A p \in Pages :
       page[p].dirty /\ page'[p].text # page[p].text
         => page'[p].dirty \/ Revert(p) \/ ReceiveSaved(p)]_vars

FirewallQuiet ==
  /\ \A a \in Answerers : building[a] = <<>>
  /\ \A p \in Pages : request[p].state # "logging"

(* Once the guest's list stays and the firewall does not change, a page    *)
(* that is connected and has no unsaved text ends up showing that list in  *)
(* its rows, with their buttons enabled: after saves that fail or whose    *)
(* reply is lost, after dropped events, and after an older list that       *)
(* /api/snapshot or enqueueFwActivities brought late.  As long as the      *)
(* firewall changes, an old list can be published again and again.         *)
PageConverges ==
  \A p \in Pages : \A l \in Lists :
    <>[](guestList = l /\ conn[p] /\ ~page[p].dirty /\ FirewallQuiet)
      => <>[](page[p].clean = l /\ page[p].rows = l /\ ~page[p].locked)
=============================================================================
