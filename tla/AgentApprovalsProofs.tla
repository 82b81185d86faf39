------------------------ MODULE AgentApprovalsProofs ------------------------
(***************************************************************************)
(* Proofs about AgentApprovals, for any number of calls, sessions and      *)
(* answers: an answer decides the call that it was given to, and a call    *)
(* that has ended leaves nothing behind in the broker.                     *)
(***************************************************************************)
EXTENDS AgentApprovals, TLAPS

-----------------------------------------------------------------------------
(* Answers. *)

\* While nobody posts, what was taken and what was approved stays the same.
LEMMA NothingPosted ==
  ASSUME posted' = posted
  PROVE  /\ \A c : Accepted(c)' = Accepted(c)
         /\ \A s : Approved(s)' = Approved(s)
         /\ \A c, answer : TakenIs(c, answer)' = TakenIs(c, answer)
BY DEF Accepted, Approved, TakenIs

\* A post adds one answer to one call, and never takes an approval back.
LEMMA OnePosted ==
  ASSUME TypeOK, NEW c \in Call, NEW answer \in Answer,
         NEW status \in {"resolved", "queued", "not_found"},
         posted' = [posted EXCEPT ![c] = Append(@, [answer |-> answer, status |-> status])]
  PROVE  /\ posted' \in [Call -> Seq(Posting)]
         /\ \A d \in Call \ {c} : /\ Accepted(d)' = Accepted(d)
                                  /\ \A a : TakenIs(d, a)' = TakenIs(d, a)
         /\ status = "not_found" => /\ Accepted(c)' = Accepted(c)
                                    /\ \A a : TakenIs(c, a)' = TakenIs(c, a)
         /\ status # "not_found" /\ Accepted(c) = {} =>
                /\ Accepted(c)' # {}
                /\ \A i, j \in Accepted(c)' : i = j
                /\ TakenIs(c, answer)'
         /\ \A s : Approved(s) => Approved(s)'
         /\ status # "not_found" /\ answer = "always" => Approved(SessionOf[c])'
<1> DEFINE p == [answer |-> answer, status |-> status]
           n == Len(posted[c]) + 1
<1>1. posted[c] \in Seq(Posting)
  BY DEF TypeOK
<1>2. p \in Posting /\ p.answer = answer /\ p.status = status
  BY DEF Posting
<1> HIDE DEF p
<1>3. /\ posted'[c] = Append(posted[c], p)
      /\ \A d \in Call \ {c} : posted'[d] = posted[d]
      /\ posted' \in [Call -> Seq(Posting)]
  <2>1. Append(posted[c], p) \in Seq(Posting)
    BY <1>1, <1>2
  <2>2. posted' = [posted EXCEPT ![c] = Append(posted[c], p)] /\ posted \in [Call -> Seq(Posting)]
    BY DEF TypeOK, p
  <2> HIDE DEF p
  <2> QED
    BY <2>1, <2>2
<1>4. /\ DOMAIN posted[c] = 1 .. Len(posted[c]) /\ Len(posted[c]) \in Nat
      /\ DOMAIN posted'[c] = DOMAIN posted[c] \cup {n}
      /\ n \notin DOMAIN posted[c]
      /\ posted'[c][n] = p
      /\ \A i \in DOMAIN posted[c] : posted'[c][i] = posted[c][i]
  BY <1>1, <1>2, <1>3
<1>5. \A d \in Call \ {c} : /\ Accepted(d)' = Accepted(d)
                            /\ \A a : TakenIs(d, a)' = TakenIs(d, a)
  BY <1>3 DEF Accepted, TakenIs
<1>6. status = "not_found" => Accepted(c)' = Accepted(c) /\ \A a : TakenIs(c, a)' = TakenIs(c, a)
  BY <1>2, <1>4 DEF Accepted, TakenIs
<1>7. status # "not_found" => Accepted(c)' = Accepted(c) \cup {n} /\ posted'[c][n].answer = answer
  BY <1>2, <1>4 DEF Accepted
<1>8. \A d \in Call : \A i \in Accepted(d) : i \in Accepted(d)' /\ posted'[d][i] = posted[d][i]
  BY <1>3, <1>4 DEF Accepted
<1>9. \A s : Approved(s) => Approved(s)'
  BY <1>8 DEF Approved
<1>10. status # "not_found" /\ answer = "always" => Approved(SessionOf[c])'
  BY <1>7 DEF Approved
<1>11. status # "not_found" /\ Accepted(c) = {} =>
         /\ Accepted(c)' # {} /\ \A i, j \in Accepted(c)' : i = j /\ TakenIs(c, answer)'
  BY <1>7 DEF TakenIs
<1> QED
  BY <1>3, <1>5, <1>6, <1>9, <1>10, <1>11

\* A call that was approved for its session has its session approved.
LEMMA TakenApproves ==
  ASSUME NEW c \in Call, TakenIs(c, "always"), Accepted(c) # {}
  PROVE  Approved(SessionOf[c])
BY DEF TakenIs, Approved

-----------------------------------------------------------------------------
(* Steps of a call. *)

\* The engine has remembered the session, or the broker is asked.
LEMMA StartInv ==
  ASSUME ApprovalInv, NEW c \in Call, Start(c)
  PROVE  ApprovalInv'
<1> USE DEF Start, Goto, broker
<1>1. /\ \A d : Accepted(d)' = Accepted(d)
      /\ \A s : Approved(s)' = Approved(s)
      /\ \A d, answer : TakenIs(d, answer)' = TakenIs(d, answer)
  BY NothingPosted
<1>2. TypeOK'
  BY <1>1 DEF ApprovalInv, TypeOK
<1>3. SessionsJustified'
  BY <1>1 DEF ApprovalInv, SessionsJustified
<1>4. OpenUnanswered'
  BY <1>1 DEF ApprovalInv, OpenUnanswered
<1>5. OnItsWay'
  BY <1>1 DEF ApprovalInv, OnItsWay
<1>6. PlaceAgrees'
  BY <1>1 DEF ApprovalInv, TypeOK, PlaceAgrees, PlaceOf
<1>7. DecisionAgrees'
  <2>1. CASE SessionOf[c] \in remembered
    <3>1. Approved(SessionOf[c])
      BY <2>1 DEF ApprovalInv, SessionsJustified
    <3> QED
      BY <1>1, <2>1, <3>1 DEF ApprovalInv, TypeOK, PlaceAgrees, PlaceOf, DecisionAgrees, DecisionOf
  <2>2. CASE SessionOf[c] \notin remembered
    BY <1>1, <2>2 DEF ApprovalInv, TypeOK, DecisionAgrees, DecisionOf
  <2> QED
    BY <2>1, <2>2
<1> QED
  BY <1>2, <1>3, <1>4, <1>5, <1>6, <1>7 DEF ApprovalInv

\* Nothing but the place of the call changes.
LEMMA NotifyInv ==
  ASSUME ApprovalInv, NEW c \in Call, Notify(c)
  PROVE  ApprovalInv'
<1> USE DEF Notify, Goto, broker
<1>1. /\ \A d : Accepted(d)' = Accepted(d)
      /\ \A s : Approved(s)' = Approved(s)
      /\ \A d, answer : TakenIs(d, answer)' = TakenIs(d, answer)
  BY NothingPosted
<1>2. TypeOK'
  BY <1>1 DEF ApprovalInv, TypeOK
<1>3. SessionsJustified'
  BY <1>1 DEF ApprovalInv, SessionsJustified
<1>4. OpenUnanswered'
  BY <1>1 DEF ApprovalInv, OpenUnanswered
<1>5. OnItsWay'
  BY <1>1 DEF ApprovalInv, OnItsWay
<1>6. PlaceAgrees'
  BY <1>1 DEF ApprovalInv, PlaceAgrees, PlaceOf
<1>7. DecisionAgrees'
  BY <1>1 DEF ApprovalInv, DecisionAgrees, DecisionOf
<1> QED
  BY <1>2, <1>3, <1>4, <1>5, <1>6, <1>7 DEF ApprovalInv

\* The call can be answered from now on, or is denied in advance.
LEMMA AnnounceInv ==
  ASSUME ApprovalInv, NEW c \in Call, Announce(c)
  PROVE  ApprovalInv'
<1> USE DEF Announce, Goto, broker
<1>1. /\ \A d : Accepted(d)' = Accepted(d)
      /\ \A s : Approved(s)' = Approved(s)
      /\ \A d, answer : TakenIs(d, answer)' = TakenIs(d, answer)
  BY NothingPosted
<1>2. TypeOK'
  BY <1>1 DEF ApprovalInv, TypeOK, Answer, Session
<1>3. SessionsJustified'
  BY <1>1 DEF ApprovalInv, SessionsJustified
<1>4. OpenUnanswered'
  <2>1. Accepted(c) = {} /\ notified' \subseteq notified \cup {c} /\ pending' = pending
    BY DEF ApprovalInv, PlaceAgrees, PlaceOf
  <2> QED
    BY <1>1, <2>1 DEF ApprovalInv, OpenUnanswered
<1>5. OnItsWay'
  <2>1. Accepted(c) = {} /\ c \notin notified /\ early[c] = None
    BY DEF ApprovalInv, PlaceAgrees, PlaceOf
  <2>2. TakenIs(c, "deny")
    BY <2>1 DEF TakenIs
  <2>3. \A d \in Call \ {c} : early'[d] = early[d] /\ (d \in notified' => d \in notified)
    BY DEF ApprovalInv, TypeOK
  <2>4. early'[c] = None \/ (early'[c] = "deny" /\ notified' = notified)
    BY <2>1 DEF ApprovalInv, TypeOK
  <2> QED
    BY <1>1, <2>1, <2>2, <2>3, <2>4 DEF ApprovalInv, OnItsWay
<1>6. PlaceAgrees'
  BY <1>1 DEF ApprovalInv, TypeOK, PlaceAgrees, PlaceOf
<1>7. DecisionAgrees'
  BY <1>1 DEF ApprovalInv, TypeOK, DecisionAgrees, DecisionOf
<1> QED
  BY <1>2, <1>3, <1>4, <1>5, <1>6, <1>7 DEF ApprovalInv

\* The broker has the session approved, or the call registers.
LEMMA AskInv ==
  ASSUME ApprovalInv, NEW c \in Call, Ask(c)
  PROVE  ApprovalInv'
<1> USE DEF Ask, Goto, broker
<1>1. /\ \A d : Accepted(d)' = Accepted(d)
      /\ \A s : Approved(s)' = Approved(s)
      /\ \A d, answer : TakenIs(d, answer)' = TakenIs(d, answer)
  BY NothingPosted
<1>2. TypeOK'
  BY <1>1 DEF ApprovalInv, TypeOK
<1>3. SessionsJustified'
  BY <1>1 DEF ApprovalInv, SessionsJustified
<1>4. OpenUnanswered'
  BY <1>1 DEF ApprovalInv, OpenUnanswered
<1>5. OnItsWay'
  BY <1>1 DEF ApprovalInv, OnItsWay
<1>6. PlaceAgrees'
  BY <1>1 DEF ApprovalInv, TypeOK, PlaceAgrees, PlaceOf
<1>7. DecisionAgrees'
  BY <1>1 DEF ApprovalInv, TypeOK, SessionsJustified, PlaceAgrees, PlaceOf, DecisionAgrees,
              DecisionOf
<1> QED
  BY <1>2, <1>3, <1>4, <1>5, <1>6, <1>7 DEF ApprovalInv

\* The early answer is the one that was taken.
LEMMA WaitInv ==
  ASSUME ApprovalInv, NEW c \in Call, Wait(c)
  PROVE  ApprovalInv'
<1> USE DEF Wait, Goto, broker
<1>1. /\ \A d : Accepted(d)' = Accepted(d)
      /\ \A s : Approved(s)' = Approved(s)
      /\ \A d, answer : TakenIs(d, answer)' = TakenIs(d, answer)
  BY NothingPosted
<1>2. TypeOK'
  <2>1. early[c] # None => early[c] \in Answer
    BY DEF ApprovalInv, TypeOK
  <2>2. Approving(early[c], c) \subseteq Session
    BY DEF Approving, Session
  <2> QED
    BY <2>1, <2>2 DEF ApprovalInv, TypeOK
<1>3. SessionsJustified'
  <2>1. CASE early[c] = None
    BY <1>1, <2>1 DEF ApprovalInv, SessionsJustified
  <2>2. CASE early[c] # None
    <3>1. early[c] = "always" => TakenIs(c, "always") /\ Accepted(c) # {}
      BY <2>2 DEF ApprovalInv, OnItsWay
    <3>2. \A s \in Approving(early[c], c) : Approved(s)
      BY <3>1, TakenApproves DEF Approving
    <3> QED
      BY <1>1, <2>2, <3>2 DEF ApprovalInv, SessionsJustified
  <2> QED
    BY <2>1, <2>2
<1>4. OpenUnanswered'
  BY <1>1 DEF ApprovalInv, TypeOK, OpenUnanswered, PlaceAgrees, PlaceOf
<1>5. OnItsWay'
  BY <1>1 DEF ApprovalInv, TypeOK, OnItsWay, PlaceAgrees, PlaceOf
<1>6. PlaceAgrees'
  <2>1. CASE early[c] = None
    BY <1>1, <2>1 DEF ApprovalInv, TypeOK, OnItsWay, PlaceAgrees, PlaceOf
  <2>2. CASE early[c] # None
    BY <1>1, <2>2 DEF ApprovalInv, TypeOK, OnItsWay, PlaceAgrees, PlaceOf
  <2> QED
    BY <2>1, <2>2
<1>7. DecisionAgrees'
  BY <1>1, ApprovalAssumption DEF ApprovalInv, TypeOK, OnItsWay, PlaceAgrees, PlaceOf,
              DecisionAgrees, DecisionOf, Answer
<1> QED
  BY <1>2, <1>3, <1>4, <1>5, <1>6, <1>7 DEF ApprovalInv

\* The answer in the channel is the one that was taken.
LEMMA ReceiveInv ==
  ASSUME ApprovalInv, NEW c \in Call, Receive(c)
  PROVE  ApprovalInv'
<1> USE DEF Receive, Goto, broker
<1>1. /\ \A d : Accepted(d)' = Accepted(d)
      /\ \A s : Approved(s)' = Approved(s)
      /\ \A d, answer : TakenIs(d, answer)' = TakenIs(d, answer)
  BY NothingPosted
<1>2. TypeOK'
  BY <1>1 DEF ApprovalInv, TypeOK
<1>3. SessionsJustified'
  BY <1>1 DEF ApprovalInv, SessionsJustified
<1>4. OpenUnanswered'
  BY <1>1 DEF ApprovalInv, OpenUnanswered
<1>5. OnItsWay'
  BY <1>1 DEF ApprovalInv, OnItsWay
<1>6. PlaceAgrees'
  BY <1>1 DEF ApprovalInv, PlaceAgrees, PlaceOf
<1>7. DecisionAgrees'
  BY <1>1, ApprovalAssumption DEF ApprovalInv, TypeOK, OnItsWay, PlaceAgrees, PlaceOf,
              DecisionAgrees, DecisionOf, Answer
<1> QED
  BY <1>2, <1>3, <1>4, <1>5, <1>6, <1>7 DEF ApprovalInv

\* A call that times out is told a denial.
LEMMA TimeOutInv ==
  ASSUME ApprovalInv, NEW c \in Call, TimeOut(c)
  PROVE  ApprovalInv'
<1> USE DEF TimeOut, Goto, broker
<1>1. /\ \A d : Accepted(d)' = Accepted(d)
      /\ \A s : Approved(s)' = Approved(s)
      /\ \A d, answer : TakenIs(d, answer)' = TakenIs(d, answer)
  BY NothingPosted
<1>2. TypeOK'
  BY <1>1 DEF ApprovalInv, TypeOK, Answer, Session
<1>3. SessionsJustified'
  BY <1>1 DEF ApprovalInv, SessionsJustified
<1>4. OpenUnanswered'
  BY <1>1 DEF ApprovalInv, OpenUnanswered
<1>5. OnItsWay'
  BY <1>1 DEF ApprovalInv, OnItsWay
<1>6. PlaceAgrees'
  BY <1>1 DEF ApprovalInv, TypeOK, PlaceAgrees, PlaceOf
<1>7. DecisionAgrees'
  BY <1>1 DEF ApprovalInv, TypeOK, DecisionAgrees, DecisionOf, Answer
<1> QED
  BY <1>2, <1>3, <1>4, <1>5, <1>6, <1>7 DEF ApprovalInv

\* The broker forgets the call.
LEMMA CleanUpInv ==
  ASSUME ApprovalInv, NEW c \in Call, CleanUp(c)
  PROVE  ApprovalInv'
<1> USE DEF CleanUp, Goto, broker
<1>1. /\ \A d : Accepted(d)' = Accepted(d)
      /\ \A s : Approved(s)' = Approved(s)
      /\ \A d, answer : TakenIs(d, answer)' = TakenIs(d, answer)
  BY NothingPosted
<1>2. TypeOK'
  BY <1>1 DEF ApprovalInv, TypeOK
<1>3. SessionsJustified'
  BY <1>1 DEF ApprovalInv, SessionsJustified
<1>4. OpenUnanswered'
  BY <1>1 DEF ApprovalInv, OpenUnanswered
<1>5. OnItsWay'
  BY <1>1 DEF ApprovalInv, OnItsWay
<1>6. PlaceAgrees'
  BY <1>1 DEF ApprovalInv, PlaceAgrees, PlaceOf
<1>7. DecisionAgrees'
  BY <1>1 DEF ApprovalInv, TypeOK, PlaceAgrees, PlaceOf, DecisionAgrees, DecisionOf
<1> QED
  BY <1>2, <1>3, <1>4, <1>5, <1>6, <1>7 DEF ApprovalInv

\* A session is remembered because a client approved it.
LEMMA FinishInv ==
  ASSUME ApprovalInv, NEW c \in Call, Finish(c)
  PROVE  ApprovalInv'
<1> USE DEF Finish, Goto, broker
<1>1. /\ \A d : Accepted(d)' = Accepted(d)
      /\ \A s : Approved(s)' = Approved(s)
      /\ \A d, answer : TakenIs(d, answer)' = TakenIs(d, answer)
  BY NothingPosted
<1>2. TypeOK'
  BY <1>1 DEF ApprovalInv, TypeOK, Approving, Answer, Session
<1>3. SessionsJustified'
  <2>1. decision[c] = "always" => TakenIs(c, "always") /\ Accepted(c) # {}
    BY DEF ApprovalInv, DecisionAgrees, DecisionOf, Answer
  <2>2. \A s \in Approving(decision[c], c) : Approved(s)
    BY <2>1, TakenApproves DEF Approving
  <2> QED
    BY <1>1, <2>2 DEF ApprovalInv, SessionsJustified
<1>4. OpenUnanswered'
  BY <1>1 DEF ApprovalInv, OpenUnanswered
<1>5. OnItsWay'
  BY <1>1 DEF ApprovalInv, OnItsWay
<1>6. PlaceAgrees'
  BY <1>1 DEF ApprovalInv, PlaceAgrees, PlaceOf
<1>7. DecisionAgrees'
  BY <1>1 DEF ApprovalInv, DecisionAgrees, DecisionOf
<1> QED
  BY <1>2, <1>3, <1>4, <1>5, <1>6, <1>7 DEF ApprovalInv

-----------------------------------------------------------------------------
(* Clients. *)

\* An answer that is taken is the only one, and reaches the call that waits for
\* it, or will.
LEMMA PostInv ==
  ASSUME ApprovalInv, NEW c \in Call, NEW answer \in Answer, Post(c, answer)
  PROVE  ApprovalInv'
<1> USE DEF Post, broker
<1> DEFINE status == IF c \in pending THEN "resolved" ELSE
                     IF c \in notified THEN "queued" ELSE "not_found"
<1>0. status \in {"resolved", "queued", "not_found"}
  OBVIOUS
<1>1. posted' = [posted EXCEPT ![c] = Append(@, [answer |-> answer, status |-> status])]
  OBVIOUS
<1>2. TypeOK
  BY DEF ApprovalInv
<1> HIDE DEF status
<1>3. /\ posted' \in [Call -> Seq(Posting)]
      /\ \A d \in Call \ {c} : /\ Accepted(d)' = Accepted(d)
                               /\ \A a : TakenIs(d, a)' = TakenIs(d, a)
      /\ status = "not_found" => /\ Accepted(c)' = Accepted(c)
                                 /\ \A a : TakenIs(c, a)' = TakenIs(c, a)
      /\ status # "not_found" /\ Accepted(c) = {} =>
             /\ Accepted(c)' # {}
             /\ \A i, j \in Accepted(c)' : i = j
             /\ TakenIs(c, answer)'
      /\ \A s : Approved(s) => Approved(s)'
      /\ status # "not_found" /\ answer = "always" => Approved(SessionOf[c])'
  BY <1>0, <1>1, <1>2, OnePosted
<1>4. c \in pending \cup notified <=> status # "not_found"
  BY DEF status
<1>5. c \in pending \cup notified => Accepted(c) = {}
  BY DEF ApprovalInv, OpenUnanswered
<1>6. \A d \in Call \ {c} : /\ early'[d] = early[d] /\ inbox'[d] = inbox[d]
                            /\ d \in pending' <=> d \in pending
                            /\ d \in notified' <=> d \in notified
  BY <1>2 DEF TypeOK
<1>7. /\ approvedSessions' \subseteq approvedSessions \cup Approving(answer, c)
      /\ approvedSessions' # approvedSessions => c \in pending
      /\ c \notin pending' \cup notified'
      /\ UNCHANGED <<remembered, pc, decision, announced, timedOut>>
  OBVIOUS
<1>8. c \in pending =>
        /\ inbox'[c] = answer /\ early' = early /\ answer # None
        /\ pc[c] \in {"waiting", "cleanup"} /\ early[c] = None
        /\ pc[c] = "cleanup" => c \in timedOut /\ decision[c] = "deny"
  BY <1>2, ApprovalAssumption DEF ApprovalInv, PlaceAgrees, PlaceOf, DecisionAgrees, DecisionOf, TypeOK
<1>9. c \notin pending /\ c \in notified =>
        /\ inbox' = inbox /\ early'[c] = answer /\ answer # None
        /\ \/ pc[c] \in {"ask", "register"} /\ inbox[c] = None
           \/ pc[c] \in {"decided", "ran", "denied"} /\ decision[c] = "session"
  BY <1>2, ApprovalAssumption DEF ApprovalInv, PlaceAgrees, PlaceOf, DecisionAgrees, DecisionOf, TypeOK
<1>10. c \notin pending /\ c \notin notified =>
        UNCHANGED <<inbox, early, pending, notified, approvedSessions>>
  OBVIOUS
<1>11. TypeOK'
  <2>1. Approving(answer, c) \subseteq Session
    BY DEF Approving, Session
  <2> QED
    BY <1>2, <1>3, <2>1 DEF TypeOK
<1> HIDE DEF Post
<1>12. SessionsJustified'
  <2>1. \A s \in approvedSessions' \cup remembered' :
            s \in approvedSessions \cup remembered \/ (c \in pending /\ answer = "always" /\ s = SessionOf[c])
    BY <1>7 DEF Approving
  <2> QED
    BY <1>3, <1>4, <2>1 DEF ApprovalInv, SessionsJustified
<1>13. OpenUnanswered'
  <2>1. \A d \in pending' \cup notified' : d \in Call \ {c} /\ d \in pending \cup notified
    BY <1>6, <1>7, <1>11 DEF TypeOK
  <2>2. \A d \in pending' \cup notified' : Accepted(d)' = {}
    BY <1>3, <2>1 DEF ApprovalInv, OpenUnanswered
  <2>3. \A i, j \in Accepted(c)' : i = j
    BY <1>3, <1>4, <1>5 DEF ApprovalInv, OpenUnanswered
  <2>4. \A d \in Call \ {c} : \A i, j \in Accepted(d)' : i = j
    BY <1>3 DEF ApprovalInv, OpenUnanswered
  <2> QED
    BY <2>2, <2>3, <2>4 DEF OpenUnanswered
<1>14. ASSUME NEW d \in Call \ {c}
       PROVE  /\ Accepted(d)' = Accepted(d) /\ \A a : TakenIs(d, a)' = TakenIs(d, a)
              /\ early'[d] = early[d] /\ inbox'[d] = inbox[d] /\ pc'[d] = pc[d]
              /\ decision'[d] = decision[d]
              /\ d \in pending' <=> d \in pending
              /\ d \in notified' <=> d \in notified
              /\ d \in announced' <=> d \in announced
              /\ d \in timedOut' <=> d \in timedOut
  BY <1>3, <1>6, <1>7
<1>15. OnItsWay'
  <2>1. ASSUME NEW d \in Call \ {c}
        PROVE  /\ early'[d] # None => d \notin notified' /\ TakenIs(d, early[d])'
                                      /\ (Accepted(d)' = {} => early'[d] = "deny")
               /\ inbox'[d] # None => TakenIs(d, inbox[d])' /\ Accepted(d)' # {} /\ d \notin pending'
    BY <1>14 DEF ApprovalInv, OnItsWay
  <2>2. /\ early'[c] # None => c \notin notified' /\ TakenIs(c, early[c])'
                               /\ (Accepted(c)' = {} => early'[c] = "deny")
        /\ inbox'[c] # None => TakenIs(c, inbox[c])' /\ Accepted(c)' # {} /\ c \notin pending'
    BY <1>3, <1>4, <1>5, <1>7, <1>8, <1>9, <1>10 DEF ApprovalInv, OnItsWay
  <2> QED
    BY <2>1, <2>2 DEF OnItsWay
<1>16. PlaceAgrees'
  <2>1. ASSUME NEW d \in Call \ {c} PROVE PlaceOf(d)'
    BY <1>14 DEF ApprovalInv, PlaceAgrees, PlaceOf
  <2>2. PlaceOf(c)'
    BY <1>3, <1>4, <1>5, <1>7, <1>8, <1>9, <1>10 DEF ApprovalInv, PlaceAgrees, PlaceOf
  <2> QED
    BY <2>1, <2>2 DEF PlaceAgrees
<1>17. DecisionAgrees'
  <2>1. ASSUME NEW d \in Call \ {c} PROVE DecisionOf(d)'
    BY <1>3, <1>14 DEF ApprovalInv, DecisionAgrees, DecisionOf
  <2>2. DecisionOf(c)'
    BY <1>3, <1>4, <1>5, <1>7, <1>8, <1>9, <1>10 DEF ApprovalInv, DecisionAgrees, DecisionOf
  <2> QED
    BY <2>1, <2>2 DEF DecisionAgrees
<1> QED
  BY <1>11, <1>12, <1>13, <1>15, <1>16, <1>17 DEF ApprovalInv

\* A session that is forgotten asks again.
LEMMA ForgetInv ==
  ASSUME ApprovalInv, NEW s \in Session, Forget(s)
  PROVE  ApprovalInv'
<1> USE DEF Forget, broker
<1>1. /\ \A d : Accepted(d)' = Accepted(d)
      /\ \A q : Approved(q)' = Approved(q)
      /\ \A d, answer : TakenIs(d, answer)' = TakenIs(d, answer)
  BY NothingPosted
<1>2. TypeOK' /\ SessionsJustified'
  BY <1>1 DEF ApprovalInv, TypeOK, SessionsJustified
<1>3. OpenUnanswered' /\ OnItsWay'
  BY <1>1 DEF ApprovalInv, OpenUnanswered, OnItsWay
<1>4. PlaceAgrees' /\ DecisionAgrees'
  BY <1>1 DEF ApprovalInv, PlaceAgrees, PlaceOf, DecisionAgrees, DecisionOf
<1> QED
  BY <1>2, <1>3, <1>4 DEF ApprovalInv

-----------------------------------------------------------------------------
(* Theorems. *)

\* At the start nothing is asked, answered or approved.
LEMMA InitInv == Init => ApprovalInv
<1> SUFFICES ASSUME Init PROVE ApprovalInv
  OBVIOUS
<1>1. \A c \in Call : Accepted(c) = {}
  <2> SUFFICES ASSUME NEW c \in Call PROVE DOMAIN posted[c] = {}
    BY DEF Accepted
  <2>1. posted[c] = << >>
    BY DEF Init
  <2>2. posted[c] \in Seq(Posting) /\ Len(posted[c]) = 0
    BY <2>1
  <2>3. DOMAIN posted[c] = 1 .. 0
    BY <2>2
  <2> QED
    BY <2>3
<1>2. TypeOK
  BY DEF Init, TypeOK
<1> QED
  BY <1>1, <1>2 DEF Init, ApprovalInv, SessionsJustified, OpenUnanswered, OnItsWay, PlaceAgrees,
                    PlaceOf, DecisionAgrees, DecisionOf

\* Every step keeps the invariant.
LEMMA NextInv == ApprovalInv /\ [Next]_vars => ApprovalInv'
<1> SUFFICES ASSUME ApprovalInv, [Next]_vars PROVE ApprovalInv'
  OBVIOUS
<1>1. ASSUME NEW c \in Call, Step(c) PROVE ApprovalInv'
  BY <1>1, StartInv, NotifyInv, AnnounceInv, AskInv, WaitInv, ReceiveInv, TimeOutInv, CleanUpInv,
     FinishInv DEF Step
<1>2. CASE UNCHANGED vars
  <2>1. /\ \A d : Accepted(d)' = Accepted(d)
        /\ \A q : Approved(q)' = Approved(q)
        /\ \A d, answer : TakenIs(d, answer)' = TakenIs(d, answer)
    BY <1>2, NothingPosted DEF vars
  <2>2. TypeOK' /\ SessionsJustified'
    BY <1>2, <2>1 DEF vars, broker, ApprovalInv, TypeOK, SessionsJustified
  <2>3. OpenUnanswered' /\ OnItsWay'
    BY <1>2, <2>1 DEF vars, broker, ApprovalInv, OpenUnanswered, OnItsWay
  <2>4. PlaceAgrees' /\ DecisionAgrees'
    BY <1>2, <2>1 DEF vars, broker, ApprovalInv, PlaceAgrees, PlaceOf, DecisionAgrees, DecisionOf
  <2> QED
    BY <2>2, <2>3, <2>4 DEF ApprovalInv
<1>3. ASSUME NEW c \in Call, NEW answer \in Answer, Post(c, answer) PROVE ApprovalInv'
  BY <1>3, PostInv
<1>4. ASSUME NEW s \in Session, Forget(s) PROVE ApprovalInv'
  BY <1>4, ForgetInv
<1> QED
  BY <1>1, <1>2, <1>3, <1>4 DEF Next

\* The broker, the calls and the answers always agree: only what was taken is
\* on its way to a call, and only what a client approved counts as approved.
THEOREM ApprovalInvariant == Spec => []ApprovalInv
BY InitInv, NextInv, PTL DEF Spec

\* At most one answer to a call is taken, and the call ends as it says, unless
\* the session as a whole was approved or the wait timed out; an unanswered call
\* does not run (ApprovalBroker::resolve, wait_for_decision).
THEOREM AnswersDecide == Spec => []AnswerDecides
<1>1. ApprovalInv => AnswerDecides
  <2> SUFFICES ASSUME ApprovalInv, NEW c \in Call
               PROVE  /\ \A i, j \in Accepted(c) : i = j
                      /\ Ended(c) /\ ~Approved(SessionOf[c]) =>
                           IF Accepted(c) = {} \/ c \in timedOut THEN pc[c] = "denied"
                           ELSE \A i \in Accepted(c) : (pc[c] = "denied" <=> posted[c][i].answer = "deny")
    BY DEF AnswerDecides
  <2>1. \A i, j \in Accepted(c) : i = j
    BY DEF ApprovalInv, OpenUnanswered
  <2>2. ASSUME Ended(c), ~Approved(SessionOf[c])
        PROVE  /\ pc[c] = "denied" <=> decision[c] = "deny"
               /\ Accepted(c) = {} \/ c \in timedOut => decision[c] = "deny"
               /\ c \notin timedOut => TakenIs(c, decision[c])
    BY <2>2 DEF ApprovalInv, DecisionAgrees, DecisionOf, Ended
  <2> QED
    BY <2>1, <2>2 DEF TakenIs
<1> QED
  BY <1>1, ApprovalInvariant, PTL

\* A call that has ended is gone from the broker, unless its session was
\* approved while it asked: identifiers do not pile up, and a late answer to one
\* is refused.
THEOREM BrokerForgets == Spec => []NothingLeft
<1>1. ApprovalInv => NothingLeft
  BY DEF ApprovalInv, DecisionAgrees, DecisionOf, NothingLeft, Ended
<1> QED
  BY <1>1, ApprovalInvariant, PTL

=============================================================================
