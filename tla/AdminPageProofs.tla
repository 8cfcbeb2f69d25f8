-------------------------- MODULE AdminPageProofs ---------------------------
(***************************************************************************)
(* Proofs about AdminPage: types, that the rows are the list, and that     *)
(* typed text is kept.                                                     *)
(***************************************************************************)
EXTENDS AdminPage, TLAPS

-----------------------------------------------------------------------------
(* The script's functions. *)

\* What RowsAreTheList says of one page.
TextIsList(pg) == ~pg.dirty => pg.text = pg.clean
RowsAreList(pg) == ~pg.saving /\ ~pg.lost => pg.rows = pg.clean
Tidy(pg) == TextIsList(pg) /\ RowsAreList(pg)

\* The unsaved text is untouched.
TextKept(pg, after) == pg.dirty => after.dirty /\ after.text = pg.text

(* At most one list: what is put off, read or fetched.                     *)
LEMMA AtMostOne ==
  /\ <<>> \in Seq(Lists) /\ Len(<<>>) = 0
  /\ \A list \in Lists : <<list>> \in Seq(Lists) /\ Len(<<list>>) = 1
OBVIOUS

(* Typing makes the text unsaved and changes nothing else (the input       *)
(* handler of the list).                                                   *)
LEMMA TypedTidy ==
  ASSUME NEW pg \in Page, NEW text \in Lists, Tidy(pg)
  PROVE  LET typed == [pg EXCEPT !.text = text, !.dirty = TRUE]
         IN typed \in Page /\ typed.saving = pg.saving /\ Tidy(typed)
BY DEF Page, Tidy, TextIsList, RowsAreList

(* A list taken over is what the page shows in text and rows               *)
(* (renderAllowlistRows).                                                  *)
LEMMA TakeOverTidy ==
  ASSUME NEW pg \in Page, NEW list \in Lists
  PROVE  /\ TakeOver(pg, list) \in Page
         /\ TakeOver(pg, list).saving = pg.saving
         /\ Tidy(TakeOver(pg, list))
BY DEF TakeOver, Page, Tidy, TextIsList, RowsAreList

(* A state that arrives leaves a page tidy and unsaved text alone          *)
(* (applyState).                                                           *)
LEMMA ApplyTidy ==
  ASSUME NEW pg \in Page, NEW list \in Lists, Tidy(pg)
  PROVE  /\ ApplyState(pg, list) \in Page
         /\ ApplyState(pg, list).saving = pg.saving
         /\ Tidy(ApplyState(pg, list))
         /\ TextKept(pg, ApplyState(pg, list))
<1>1. CASE pg.saving
  BY <1>1, AtMostOne DEF ApplyState, Page, Tidy, TextIsList, RowsAreList, TextKept
<1>2. CASE ~pg.saving
  BY <1>2, TakeOverTidy DEF ApplyState, TextKept
<1> QED
  BY <1>1, <1>2

(* The end of a save leaves a page tidy, also when a state was put off, as *)
(* long as its rows are the list or the save's reply never came            *)
(* (saveAllowlistText, `finally`).                                         *)
LEMMA EndedTidy ==
  ASSUME NEW pg \in Page, TextIsList(pg), pg.lost \/ pg.rows = pg.clean
  PROVE  /\ SaveEnded(pg) \in Page
         /\ ~SaveEnded(pg).saving
         /\ Tidy(SaveEnded(pg))
         /\ TextKept(pg, SaveEnded(pg))
<1> DEFINE ended == [pg EXCEPT !.saving = FALSE, !.pending = <<>>]
<1>1. ended \in Page /\ ~ended.saving /\ Tidy(ended) /\ TextKept(pg, ended)
  <2>1. ended \in Page /\ ~ended.saving
    BY AtMostOne DEF Page
  <2>2. Tidy(ended) /\ TextKept(pg, ended)
    BY DEF Page, Tidy, TextIsList, RowsAreList, TextKept
  <2> QED
    BY <2>1, <2>2
<1>2. CASE pg.pending = <<>>
  BY <1>1, <1>2 DEF SaveEnded
<1>3. CASE pg.pending # <<>>
  <2>1. Head(pg.pending) \in Lists
    BY <1>3 DEF Page
  <2>2. SaveEnded(pg) = ApplyState(ended, Head(pg.pending))
    BY <1>3 DEF SaveEnded
  <2> HIDE DEF ended
  <2> QED
    BY <1>1, <2>1, <2>2, ApplyTidy DEF TextKept
<1> QED
  BY <1>2, <1>3

(* However a save ends, its page is tidy; only one that succeeded touches  *)
(* unsaved text (saveAllowlistText).                                       *)
LEMMA OutcomesTidy ==
  ASSUME NEW pg \in Page, Tidy(pg), NEW text \in Lists
  PROVE  /\ \A after \in {Saved(pg, text), SaveFailed(pg), SaveBroken(pg)} :
              after \in Page /\ ~after.saving /\ Tidy(after)
         /\ TextKept(pg, SaveFailed(pg)) /\ TextKept(pg, SaveBroken(pg))
<1>1. Saved(pg, text) \in Page /\ ~Saved(pg, text).saving /\ Tidy(Saved(pg, text))
  <2> DEFINE clean == TakeOver([pg EXCEPT !.dirty = FALSE], text)
  <2>1. [pg EXCEPT !.dirty = FALSE] \in Page
    BY DEF Page
  <2>2. clean \in Page /\ Tidy(clean)
    BY <2>1, TakeOverTidy
  <2>3. clean.rows = clean.clean
    BY <2>1 DEF TakeOver, Page
  <2>4. Saved(pg, text) = SaveEnded(clean)
    BY DEF Saved
  <2> HIDE DEF clean
  <2> QED
    BY <2>2, <2>3, <2>4, EndedTidy DEF Tidy
<1>2. SaveFailed(pg) \in Page /\ ~SaveFailed(pg).saving /\ Tidy(SaveFailed(pg)) /\ TextKept(pg, SaveFailed(pg))
  <2> DEFINE back == [pg EXCEPT !.rows = pg.clean, !.locked = TRUE]
  <2>1. back \in Page /\ TextIsList(back) /\ back.rows = back.clean /\ TextKept(pg, back)
    BY DEF Page, Tidy, TextIsList, TextKept
  <2>2. SaveFailed(pg) = SaveEnded(back)
    BY DEF SaveFailed
  <2> HIDE DEF back
  <2> QED
    BY <2>1, <2>2, EndedTidy DEF TextKept
<1>3. SaveBroken(pg) \in Page /\ ~SaveBroken(pg).saving /\ Tidy(SaveBroken(pg)) /\ TextKept(pg, SaveBroken(pg))
  <2> DEFINE broken == [pg EXCEPT !.lost = TRUE]
  <2>1. broken \in Page /\ TextIsList(broken) /\ broken.lost /\ TextKept(pg, broken)
    BY DEF Page, Tidy, TextIsList, TextKept
  <2>2. SaveBroken(pg) = SaveEnded(broken)
    BY DEF SaveBroken
  <2> HIDE DEF broken
  <2> QED
    BY <2>1, <2>2, EndedTidy DEF TextKept
<1> QED
  BY <1>1, <1>2, <1>3

-----------------------------------------------------------------------------
(* The invariant. *)

PageInv == PageTypeOK /\ \A p \in Pages : Tidy(page[p])

\* All that an action of page p may do to pages and requests: it keeps the invariant.
PageTurns(p) ==
  /\ page' = [page EXCEPT ![p] = page'[p]] /\ page'[p] \in Page /\ Tidy(page'[p])
  /\ request' = [request EXCEPT ![p] = request'[p]]
  /\ request'[p] \in [state : RequestState, text : Lists]
  /\ page'[p].saving <=> request'[p].state # "none"

(* What is typed, saved or toggled keeps a page tidy, and a request is     *)
(* under way exactly while it is saving (saveAllowlistText,                *)
(* toggleAllowlistRow).                                                    *)
LEMMA OperatorTurns ==
  ASSUME PageInv, NEW p \in Pages, Operator(p)
  PROVE  PageTurns(p) /\ UNCHANGED <<serverVars, streamVars, fetched, disturbances>>
<1> USE DEF PageInv, PageTypeOK
<1>1. ASSUME NEW text \in Lists, Type(p, text)
      PROVE  PageTurns(p)
  <2> DEFINE typed == [page[p] EXCEPT !.text = text, !.dirty = TRUE]
  <2>1. typed \in Page /\ typed.saving = page[p].saving /\ Tidy(typed)
    BY TypedTidy
  <2>2. page' = [page EXCEPT ![p] = typed]
    BY <1>1 DEF Type
  <2> HIDE DEF typed
  <2> QED
    BY <1>1, <2>1, <2>2 DEF Type, PageTurns
<1>2. ASSUME Revert(p)
      PROVE  PageTurns(p)
  <2> DEFINE reverted == [page[p] EXCEPT !.dirty = FALSE]
  <2>1. reverted \in Page /\ reverted.saving = page[p].saving /\ page[p].clean \in Lists
    BY DEF Page
  <2>2. page' = [page EXCEPT ![p] = TakeOver(reverted, page[p].clean)]
    BY <1>2 DEF Revert
  <2> HIDE DEF reverted
  <2>3. page'[p] \in Page /\ page'[p].saving = page[p].saving /\ Tidy(page'[p])
    BY <2>1, <2>2, TakeOverTidy
  <2> QED
    BY <1>2, <2>2, <2>3 DEF Revert, PageTurns
<1>3. ASSUME NEW text \in Lists, Posts(p, text)
      PROVE  PageTurns(p)
  <2> DEFINE posted == [page[p] EXCEPT !.saving = TRUE, !.rows = text, !.locked = TRUE]
  <2>1. posted \in Page /\ posted.saving /\ Tidy(posted)
    BY DEF Page, Tidy, TextIsList, RowsAreList
  <2>2. page' = [page EXCEPT ![p] = posted]
    BY <1>3 DEF Posts
  <2> HIDE DEF posted
  <2> QED
    BY <1>3, <2>1, <2>2 DEF Posts, Put, PageTurns, RequestState
<1>4. ASSUME ClickSave(p)
      PROVE  PageTurns(p)
  BY <1>3, <1>4 DEF ClickSave, Page
<1>5. ASSUME NEW n \in Names, Toggle(p, n)
      PROVE  PageTurns(p)
  <2>1. page[p].clean \in Lists
    BY DEF Page
  <2>2. Toggled(page[p].clean, n) \in Lists
    BY <2>1 DEF Toggled, Lists, Status
  <2> QED
    BY <1>3, <1>5, <2>2 DEF Toggle
<1> QED
  BY <1>1, <1>2, <1>4, <1>5 DEF Operator, Type, Revert, ClickSave, Toggle, Posts

\* The types of what a page's turn leaves to the server and the network.
RestTypeOK ==
  /\ guestList \in Lists /\ snap \in Lists
  /\ building \in [Publishers -> Seq(Lists)]
  /\ feed \in [Pages -> Seq(Lists)] /\ \A p \in Pages : Len(feed[p]) <= FeedSize
  /\ conn \in [Pages -> BOOLEAN]
  /\ fetched \in [Pages -> Seq(Lists)]
  /\ disturbances \in Nat

(* What reaches the page leaves it tidy, unsaved text as it is, and the    *)
(* script saving exactly while its request is under way (EventSource,      *)
(* fetch, saveAllowlistText).                                              *)
LEMMA ArrivalTurns ==
  ASSUME PageInv, NEW p \in Pages, Network(p) \/ Replied(p)
  PROVE  /\ PageTurns(p) /\ RestTypeOK'
         /\ ReceiveSaved(p) \/ TextKept(page[p], page'[p])
<1> USE DEF PageInv, PageTypeOK, RestTypeOK
<1>1. ASSUME NEW list \in Lists, page' = [page EXCEPT ![p] = ApplyState(@, list)], UNCHANGED request
      PROVE  PageTurns(p) /\ TextKept(page[p], page'[p])
  BY <1>1, ApplyTidy DEF PageTurns
<1>2. ASSUME Receive(p)
      PROVE  PageTurns(p) /\ RestTypeOK' /\ TextKept(page[p], page'[p])
  <2>1. Head(feed[p]) \in Lists /\ Tail(feed[p]) \in Seq(Lists) /\ Len(Tail(feed[p])) <= FeedSize
    BY <1>2, PageAssumption DEF Receive
  <2> QED
    BY <1>1, <1>2, <2>1 DEF Receive, Put, serverVars
<1>3. ASSUME ReceiveFetch(p)
      PROVE  PageTurns(p) /\ RestTypeOK' /\ TextKept(page[p], page'[p])
  <2>1. Head(fetched[p]) \in Lists
    BY <1>3 DEF ReceiveFetch
  <2> QED
    BY <1>1, <1>3, <2>1, AtMostOne DEF ReceiveFetch, Put, serverVars, streamVars
<1>4. ASSUME AnswerFetch(p) \/ Connect(p) \/ Disconnect(p)
      PROVE  PageTurns(p) /\ RestTypeOK' /\ TextKept(page[p], page'[p])
  <2>1. PageTurns(p) /\ TextKept(page[p], page'[p])
    BY <1>4 DEF AnswerFetch, Connect, Disconnect, PageTurns, TextKept
  <2>2. CASE AnswerFetch(p)
    <3>1. PICK answer \in Seq(Lists) : fetched' = [fetched EXCEPT ![p] = answer]
      BY <2>2, AtMostOne, Zenon DEF AnswerFetch, Put
    <3>2. fetched' \in [Pages -> Seq(Lists)]
      BY <3>1
    <3>3. disturbances' \in Nat
      BY <2>2 DEF AnswerFetch, Disturbs
    <3> QED
      BY <2>1, <2>2, <3>2, <3>3 DEF AnswerFetch, serverVars, streamVars
  <2>3. CASE Connect(p) \/ Disconnect(p)
    <3>1. PICK events \in Seq(Lists) : Len(events) <= 1 /\ feed' = [feed EXCEPT ![p] = events]
      <4>1. Len(<<>>) <= 1 /\ \A list \in Lists : Len(<<list>>) <= 1
        OBVIOUS
      <4> QED
        BY <2>3, <4>1, AtMostOne, Zenon DEF Connect, Disconnect, Put
    <3>2. feed' \in [Pages -> Seq(Lists)] /\ \A q \in Pages : Len(feed'[q]) <= FeedSize
      BY <3>1, PageAssumption
    <3>3. conn' \in [Pages -> BOOLEAN]
      BY <2>3 DEF Connect, Disconnect, Put
    <3> QED
      BY <2>1, <2>3, <3>2, <3>3 DEF Connect, Disconnect, serverVars
  <2> QED
    BY <1>4, <2>1, <2>2, <2>3
<1>5. ASSUME Replied(p)
      PROVE  PageTurns(p) /\ RestTypeOK' /\ (ReceiveSaved(p) \/ TextKept(page[p], page'[p]))
  <2>1. request[p].text \in Lists /\ NoRequest \in [state : RequestState, text : Lists]
    BY DEF NoRequest, RequestState, NoList, Lists, Status
  <2>2. ASSUME NEW after \in Page, ~after.saving, Tidy(after), Answered(p, after)
        PROVE  PageTurns(p) /\ page'[p] = after
    BY <2>1, <2>2 DEF Answered, Put, PageTurns, NoRequest
  <2>3. CASE ReceiveSaved(p)
    BY <2>1, <2>2, <2>3, OutcomesTidy DEF ReceiveSaved, Answered, serverVars, streamVars
  <2>4. CASE ReceiveFailed(p)
    BY <2>1, <2>2, <2>4, OutcomesTidy DEF ReceiveFailed, Answered, serverVars, streamVars
  <2>5. CASE LoseReply(p)
    BY <2>1, <2>2, <2>5, OutcomesTidy DEF LoseReply, Disturbs, Answered, serverVars, streamVars
  <2> QED
    BY <1>5, <2>3, <2>4, <2>5 DEF Replied
<1> QED
  BY <1>2, <1>3, <1>4, <1>5 DEF Network

(* The server does not touch the page, and moves a request on only while   *)
(* there is one (/api/save-list, Refresh).                                 *)
LEMMA ServerTurns ==
  ASSUME PageInv, \/ Ticks \/ GuestChanges
                  \/ \E a \in Answerers : AnswerLogs(a)
                  \/ \E p \in Pages : Serving(p)
  PROVE  PageInv'
<1> USE DEF PageInv, PageTypeOK
<1>1. ASSUME NEW text \in Lists
      PROVE  AfterSave(text) \subseteq Lists
  BY DEF AfterSave
<1>2. ASSUME NEW g \in Publishers, BuildView(g)
      PROVE  PageInv'
  <2>1. NoList \in Lists
    BY DEF NoList, Lists, Status
  <2>2. PICK read \in Seq(Lists) : building' = [building EXCEPT ![g] = read]
    BY <1>2, <2>1, AtMostOne, Zenon DEF BuildView, Put
  <2>3. building' \in [Publishers -> Seq(Lists)]
    BY <2>2
  <2>4. disturbances' \in Nat
    BY <1>2 DEF BuildView, Disturbs
  <2> QED
    BY <1>2, <2>3, <2>4 DEF BuildView, streamVars
<1>3. ASSUME NEW g \in Publishers, Publish(g), g \in Pages => request[g].state \in {"logging", "stored"}
      PROVE  PageInv'
  <2>1. snap' \in Lists
    BY <1>3 DEF Publish
  <2>2. building' \in [Publishers -> Seq(Lists)]
    BY <1>3 DEF Publish, Put
  <2>3. feed' \in [Pages -> Seq(Lists)] /\ \A p \in Pages : Len(feed'[p]) <= FeedSize
    BY <1>3, <2>1, PageAssumption DEF Publish
  <2>4. /\ request' \in [Pages -> [state : RequestState, text : Lists]]
        /\ \A p \in Pages : request'[p].state = "none" <=> request[p].state = "none"
    <3>1. CASE g \notin Pages
      BY <1>3, <3>1 DEF Publish
    <3>2. CASE g \in Pages
      <4> DEFINE moved == [request[g] EXCEPT !.state = Published(@)]
      <4>1. moved \in [state : RequestState, text : Lists] /\ moved.state \in {"stored", "ok"}
        BY <3>2 DEF Published, RequestState
      <4>2. request' = [request EXCEPT ![g] = moved]
        BY <1>3, <3>2 DEF Publish
      <4> HIDE DEF moved
      <4> QED
        BY <1>3, <3>2, <4>1, <4>2
    <3> QED
      BY <3>1, <3>2
  <2> QED
    BY <1>3, <2>1, <2>2, <2>3, <2>4 DEF Publish
<1>4. ASSUME NEW p \in Pages, ServeSave(p) \/ RejectSave(p)
      PROVE  PageInv'
  <2>1. guestList' \in Lists /\ disturbances' \in Nat
    BY <1>1, <1>4 DEF ServeSave, RejectSave, Disturbs
  <2>2. PICK s \in {"logging", "stored", "failed"} : request' = [request EXCEPT ![p].state = s]
    BY <1>4 DEF ServeSave, RejectSave
  <2> DEFINE served == [request[p] EXCEPT !.state = s]
  <2>3. served \in [state : RequestState, text : Lists] /\ served.state = s
    BY DEF RequestState
  <2>4. request' = [request EXCEPT ![p] = served]
    BY <2>2
  <2>5. request[p].state = "posted"
    BY <1>4 DEF ServeSave, RejectSave
  <2> HIDE DEF served
  <2> QED
    BY <1>4, <2>1, <2>3, <2>4, <2>5 DEF ServeSave, RejectSave, streamVars
<1>5. CASE GuestChanges
  BY <1>5 DEF GuestChanges, Disturbs, streamVars
<1>6. ASSUME NEW g \in Publishers, Reread(g), Disturbs \/ UNCHANGED disturbances
      PROVE  PageInv'
  <2>1. building' \in [Publishers -> Seq(Lists)]
    BY <1>6, AtMostOne DEF Reread, Put
  <2>2. disturbances' \in Nat
    BY <1>6 DEF Disturbs
  <2> QED
    BY <1>6, <2>1, <2>2 DEF Reread, streamVars
<1>7. ASSUME NEW a \in Answerers, AnswerLogs(a)
      PROVE  PageInv'
  BY <1>3, <1>6, <1>7, PageAssumption DEF AnswerLogs, Publishers
<1>8. CASE Ticks
  BY <1>2, <1>3, <1>8, PageAssumption DEF Ticks, Publishers
<1>9. ASSUME NEW p \in Pages, Serving(p)
      PROVE  PageInv'
  BY <1>2, <1>3, <1>4, <1>6, <1>9 DEF Serving, SaveLogs, SaveRefreshes, Publishers
<1> QED
  BY <1>5, <1>7, <1>8, <1>9

-----------------------------------------------------------------------------
(* The theorems. *)

(* A new page shows an empty list and has no request under way.            *)
LEMMA PageInvInit == Init => PageInv
<1> SUFFICES ASSUME Init PROVE PageInv
  OBVIOUS
<1>1. NoList \in Lists
  BY DEF NoList, Lists, Status
<1>2. NewPage \in Page /\ ~NewPage.saving /\ Tidy(NewPage)
  BY <1>1, AtMostOne DEF NewPage, Page, Tidy, TextIsList, RowsAreList
<1>3. NoRequest \in [state : RequestState, text : Lists] /\ NoRequest.state = "none"
  BY <1>1 DEF NoRequest, RequestState
<1> QED
  BY <1>1, <1>2, <1>3, AtMostOne, PageAssumption DEF Init, PageInv, PageTypeOK

(* Every step keeps pages tidy and requests and saving pages in step.      *)
LEMMA PageInvStep == PageInv /\ [Next]_vars => PageInv'
<1> SUFFICES ASSUME PageInv, [Next]_vars PROVE PageInv'
  OBVIOUS
<1>1. ASSUME NEW p \in Pages, PageTurns(p), RestTypeOK'
      PROVE  PageInv'
  BY <1>1 DEF PageTurns, RestTypeOK, PageInv, PageTypeOK
<1>2. ASSUME NEW p \in Pages, Operator(p)
      PROVE  PageInv'
  BY <1>1, <1>2, OperatorTurns DEF RestTypeOK, PageInv, PageTypeOK, serverVars, streamVars
<1>3. ASSUME NEW p \in Pages, Network(p) \/ Replied(p)
      PROVE  PageInv'
  BY <1>1, <1>3, ArrivalTurns
<1>4. CASE UNCHANGED vars
  BY <1>4 DEF vars, serverVars, streamVars, PageInv, PageTypeOK
<1> QED
  BY <1>2, <1>3, <1>4, ServerTurns DEF Next

(* The inductive invariant of the admin page, for any number of pages and  *)
(* names and any sequence of states, failures and lost replies.            *)
THEOREM PageInvariant == Spec => []PageInv
BY PageInvInit, PageInvStep, PTL DEF Spec

(* Type correctness: saveInFlight is set exactly while a request is under  *)
(* way (saveAllowlistText).                                                *)
THEOREM PageTypeCorrect == Spec => []PageTypeOK
<1>1. PageInv => PageTypeOK
  BY DEF PageInv
<1> QED
  BY <1>1, PageInvariant, PTL

(* Whatever arrives during a save, its rows are rolled back when it fails: *)
(* without unsaved text a page shows one list (saveAllowlistText,          *)
(* applyState).                                                            *)
THEOREM RowsShowTheList == Spec => []RowsAreTheList
<1>1. PageInv => RowsAreTheList
  BY DEF PageInv, RowsAreTheList, Tidy, TextIsList, RowsAreList
<1> QED
  BY <1>1, PageInvariant, PTL

(* Typed text is replaced by nothing but a revert or a save that succeeded *)
(* (applyState, saveAllowlistText).                                        *)
THEOREM TypedTextIsKept == Spec => TypedTextKept
<1> DEFINE Kept == \A p \in Pages :
                     page[p].dirty /\ page'[p].text # page[p].text
                       => page'[p].dirty \/ Revert(p) \/ ReceiveSaved(p)
<1>1. PageInv /\ [Next]_vars => [Kept]_vars
  <2> SUFFICES ASSUME PageInv, Next, NEW p \in Pages,
                      page[p].dirty, page'[p].text # page[p].text, ~page'[p].dirty
               PROVE  Revert(p) \/ ReceiveSaved(p)
    OBVIOUS
  <2>1. ASSUME NEW q \in Pages, q # p, Operator(q) \/ Network(q) \/ Replied(q)
        PROVE  page'[p] = page[p]
    BY <2>1, OperatorTurns, ArrivalTurns DEF PageTurns, PageInv, PageTypeOK
  <2>2. ASSUME Operator(p)
        PROVE  Revert(p)
    <3>1. page[p] \in Page
      BY DEF PageInv, PageTypeOK
    <3>2. ASSUME NEW text \in Lists, Type(p, text)
          PROVE  page'[p].dirty
      <4> DEFINE typed == [page[p] EXCEPT !.text = text, !.dirty = TRUE]
      <4>1. typed.dirty
        BY <3>1 DEF Page
      <4>2. page' = [page EXCEPT ![p] = typed]
        BY <3>2 DEF Type
      <4> HIDE DEF typed
      <4> QED
        BY <4>1, <4>2 DEF PageInv, PageTypeOK
    <3>3. ASSUME NEW text \in Lists, Posts(p, text)
          PROVE  page'[p].text = page[p].text
      <4> DEFINE posted == [page[p] EXCEPT !.saving = TRUE, !.rows = text, !.locked = TRUE]
      <4>1. posted.text = page[p].text
        BY <3>1 DEF Page
      <4>2. page' = [page EXCEPT ![p] = posted]
        BY <3>3 DEF Posts
      <4> HIDE DEF posted
      <4> QED
        BY <4>1, <4>2 DEF PageInv, PageTypeOK
    <3>4. ~ClickSave(p)
      BY <3>1, <3>3 DEF ClickSave, Page
    <3>5. \A n \in Names : ~Toggle(p, n)
      BY DEF Toggle
    <3> QED
      BY <2>2, <3>2, <3>4, <3>5 DEF Operator
  <2>3. ASSUME Network(p) \/ Replied(p)
        PROVE  ReceiveSaved(p)
    BY <2>3, ArrivalTurns DEF TextKept
  <2>4. ASSUME \/ Ticks \/ GuestChanges
               \/ \E a \in Answerers : AnswerLogs(a)
               \/ \E q \in Pages : Serving(q)
        PROVE  page' = page
    BY <2>4 DEF Ticks, GuestChanges, AnswerLogs, Serving, SaveLogs, SaveRefreshes, ServeSave, RejectSave,
                BuildView, Reread, Publish
  <2> QED
    BY <2>1, <2>2, <2>3, <2>4 DEF Next
<1> QED
  BY <1>1, PageInvariant, PTL DEF Spec, TypedTextKept
=============================================================================
