---------------------------- MODULE ServingProofs ----------------------------
(***************************************************************************)
(* Proofs about Serving: about HostTokens, for every set of hosts, of      *)
(* tokens and of requests under way; about Startup, for every set of       *)
(* server processes and any number of tokens and starts; and about         *)
(* Session, for every set of tokens and of requests under way.             *)
(***************************************************************************)
EXTENDS Serving, TLAPS

-----------------------------------------------------------------------------
(* The tokens of hosts: what a request is answered with. *)
Status == {0, 200, 201, 204, 400, 401, 403, 404, 409}

-----------------------------------------------------------------------------
(* Requests. *)

(* An answer is a request record again; only a refused one keeps its token. *)
LEMMA AnswerFacts ==
  ASSUME NEW r \in Request, NEW c \in Status
  PROVE  /\ Answer(r, c) \in Request
         /\ Answer(r, c).kind = "current" /\ Answer(r, c).host = None
         /\ Answer(r, c).principal = None /\ Answer(r, c).status = c
         /\ Answer(r, c).late = r.late /\ Answer(r, c).drawn = r.drawn
         /\ Answer(r, c).token = IF c = 401 THEN r.token ELSE None
<1>1. r.token \in Token \cup {Operator, None} /\ r.late \in BOOLEAN
      /\ r.drawn \in Token \cup {None}
  BY DEF Request
<1>2. Answer(r, c) \in Request
  BY <1>1 DEF Answer, Request, Status, ForHosts
<1> QED BY <1>2 DEF Answer

(* What a request may be told only grows: a token stays drawn for the host it
   was drawn for, and stays ended. *)
Grows ==
  /\ auth' = auth
  /\ ended \subseteq ended'
  /\ \A t \in Token : owner[t] # None => owner'[t] = owner[t]

(* The requests that a step leaves alone stay served for their own. *)
LEMMA OwnedStays ==
  ASSUME TypeOK, Grows, NEW r \in Request, ServedForItsOwn(r)
  PROVE  ServedForItsOwn(r)'
<1>1. r.token \in DrawnFor(r.principal) => r.token \in DrawnFor(r.principal)' \/ r.principal = None
  BY DEF Grows, DrawnFor
<1> QED BY <1>1 DEF ServedForItsOwn, Grows

(* A step that changes one request, and draws or ends no more than it must,
   preserves what is said of requests one by one. *)
LEMMA RequestsStay ==
  ASSUME TypeOK, RequestsAreOwned, EndedIsRefused, ToldIsAccepted, Grows,
         NEW s \in Slot, NEW r \in Request \cup {None},
         req' = [req EXCEPT ![s] = r],
         r # None =>
           /\ ServedForItsOwn(r)'
           /\ auth /\ r.late => r.status \in {0, 401}
           /\ r.status = 401 => r.token \in ended' \cup {None}
  PROVE  RequestsAreOwned' /\ EndedIsRefused' /\ ToldIsAccepted'
<1>1. \A q \in Slot : req'[q] = IF q = s THEN r ELSE req[q]
  BY DEF TypeOK
<1>2. \A q \in Slot : req[q] # None => req[q] \in Request
  BY DEF TypeOK
<1>3. RequestsAreOwned'
  <2> SUFFICES ASSUME NEW q \in Slot, req'[q] # None PROVE ServedForItsOwn(req[q])'
    BY DEF RequestsAreOwned
  <2>1. CASE q = s
    BY <2>1, <1>1 DEF ServedForItsOwn
  <2>2. CASE q # s
    <3>1. req'[q] = req[q] /\ req[q] \in Request /\ ServedForItsOwn(req[q])
      BY <2>2, <1>1, <1>2 DEF RequestsAreOwned
    <3>2. \A x \in Request : ServedForItsOwn(x) => ServedForItsOwn(x)'
      BY OwnedStays
    <3> QED BY <3>1, <3>2 DEF ServedForItsOwn
  <2> QED BY <2>1, <2>2
<1>4. EndedIsRefused'
  BY <1>1 DEF EndedIsRefused, Grows
<1>5. ToldIsAccepted'
  BY <1>1 DEF ToldIsAccepted, Grows
<1> QED BY <1>3, <1>4, <1>5

(* An answer, whatever the handler does to the table. *)
LEMMA AnswerKeeps ==
  ASSUME TypeOK, RequestsAreOwned, EndedIsRefused, ToldIsAccepted, Grows,
         NEW s \in Slot, req[s] # None, NEW c \in Status \ {0}, Answers(s, c),
         auth /\ req[s].late => c = 401,
         c = 401 => req[s].token \in ended \cup {None}
  PROVE  /\ req' \in [Slot -> Request \cup {None}]
         /\ RequestsAreOwned' /\ EndedIsRefused' /\ ToldIsAccepted'
<1>1. req[s] \in Request /\ ServedForItsOwn(req[s])
  BY DEF TypeOK, RequestsAreOwned
<1>0. PICK a \in Request : a = Answer(req[s], c)
  BY <1>1, AnswerFacts
<1>2. /\ a \in Request
      /\ a.kind = "current" /\ a.host = None /\ a.principal = None /\ a.status = c
      /\ a.late = req[s].late /\ a.drawn = req[s].drawn
      /\ a.token = IF c = 401 THEN req[s].token ELSE None
  BY <1>0, <1>1, AnswerFacts
<1>3. req' = [req EXCEPT ![s] = a]
  BY <1>0 DEF Answers
<1>4. ServedForItsOwn(a)'
  <2>1. a.kind \notin ForOperator
    BY <1>2 DEF ForOperator
  <2>2. \A t \in {a.token, a.drawn} \cap Token : owner'[t] # None
    BY <1>1, <1>2, NoneAssumption DEF ServedForItsOwn, Grows
  <2> QED BY <1>2, <2>1, <2>2 DEF ServedForItsOwn
<1>5. auth /\ a.late => a.status \in {0, 401}
  BY <1>2
<1>6. a.status = 401 => a.token \in ended' \cup {None}
  BY <1>2 DEF Grows
<1>7. req' \in [Slot -> Request \cup {None}]
  BY <1>2, <1>3 DEF TypeOK
<1>8. RequestsAreOwned' /\ EndedIsRefused' /\ ToldIsAccepted'
  BY <1>2, <1>3, <1>4, <1>5, <1>6, RequestsStay DEF ServedForItsOwn, DrawnFor
<1> QED BY <1>7, <1>8

-----------------------------------------------------------------------------
(* The steps. *)

LEMMA TokenInit == Init => TokenInvariant
BY DEF Init, TokenInvariant, TypeOK, TableIsTrue, RequestsAreOwned, EndedIsRefused,
       ToldIsAccepted

(* What does not touch the table leaves it true. *)
LEMMA TableStays ==
  ASSUME TableIsTrue, UNCHANGED <<host_tokens, owner, ended, told>>
  PROVE  TableIsTrue'
BY DEF TableIsTrue, DrawnFor

LEMMA SendKeeps ==
  ASSUME TokenInvariant, NEW s \in Slot, NEW kind \in ForHosts \cup ForOperator,
         NEW digest \in Token \cup {Operator, None}, NEW host \in Host \cup {None},
         Send(s, kind, digest, host)
  PROVE  TokenInvariant'
<1>0. [kind |-> kind, token |-> digest, host |-> host, late |-> digest \in ended,
       principal |-> None, status |-> 0, drawn |-> None] \in Request
  BY DEF Request
<1>1. PICK r \in Request :
        r = [kind |-> kind, token |-> digest, host |-> host,
             late |-> digest \in ended, principal |-> None, status |-> 0,
             drawn |-> None]
  BY <1>0
<1>2. /\ req' = [req EXCEPT ![s] = r] /\ UNCHANGED <<auth, store, history>>
      /\ kind \in ForOperator => host # None
      /\ digest \in told \cup {Operator, None}
  BY <1>1 DEF Send
<1>3. Grows
  BY <1>2 DEF Grows, history
<1>4. \A t \in {r.token, r.drawn} \cap Token : owner'[t] # None
  BY <1>1, <1>2, NoneAssumption, OperatorAssumption
     DEF TokenInvariant, TableIsTrue, history
<1>5. ServedForItsOwn(r)'
  BY <1>1, <1>2, <1>4 DEF ServedForItsOwn, history
<1>6. TypeOK'
  BY <1>1, <1>2 DEF TokenInvariant, TypeOK, store, history
<1>7. TableIsTrue'
  BY <1>2, TableStays DEF TokenInvariant, store, history
<1>8. /\ auth /\ r.late => r.status \in {0, 401}
      /\ r.status = 401 => r.token \in ended' \cup {None}
  BY <1>1
<1>9. RequestsAreOwned' /\ EndedIsRefused' /\ ToldIsAccepted'
  <2>1. TypeOK /\ RequestsAreOwned /\ EndedIsRefused /\ ToldIsAccepted
    BY DEF TokenInvariant
  <2>2. req' = [req EXCEPT ![s] = r]
    BY <1>2
  <2> QED
    BY <1>3, <1>5, <1>8, <2>1, <2>2, RequestsStay DEF ServedForItsOwn, DrawnFor
<1> QED BY <1>6, <1>7, <1>9 DEF TokenInvariant

LEMMA ArriveKeeps ==
  ASSUME TokenInvariant, NEW s \in Slot, Arrive(s)
  PROVE  TokenInvariant'
<1>1. req[s] \in Request /\ ServedForItsOwn(req[s])
  BY DEF TokenInvariant, TypeOK, RequestsAreOwned, Arrive
<1>2. req' = [req EXCEPT ![s] = None] /\ Grows
  BY DEF Arrive, Grows
<1>3. told' \subseteq Token /\ \A t \in told' : owner[t] # None
  BY <1>1 DEF Arrive, TokenInvariant, TypeOK, TableIsTrue, ServedForItsOwn, Request
<1>4. TypeOK'
  BY <1>2, <1>3 DEF Arrive, TokenInvariant, TypeOK, store
<1>5. TableIsTrue'
  BY <1>3 DEF Arrive, TokenInvariant, TableIsTrue, store
<1>6. RequestsAreOwned' /\ EndedIsRefused' /\ ToldIsAccepted'
  BY <1>2, RequestsStay DEF TokenInvariant
<1> QED BY <1>4, <1>5, <1>6 DEF TokenInvariant

(* What the handlers of a host share: they answer what the principal may ask,
   and leave the table alone. *)
LEMMA HandledKeeps ==
  ASSUME TokenInvariant, NEW s \in Slot, NEW kind, Handles(s, kind),
         NEW c \in Status \ {0, 401}, Answers(s, c),
         UNCHANGED <<auth, host_tokens, history>>,
         beat' \in [Host -> Host \cup {Operator, None}], flag' \in [Host -> BOOLEAN]
  PROVE  TokenInvariant'
<1>1. TypeOK /\ RequestsAreOwned /\ EndedIsRefused /\ ToldIsAccepted /\ TableIsTrue
  BY DEF TokenInvariant
<1>2. Grows
  BY DEF Grows, history
<1>3. req[s] # None /\ ~(auth /\ req[s].late)
  BY <1>1 DEF Handles, RequestsAreOwned, ServedForItsOwn
<1>4. /\ req' \in [Slot -> Request \cup {None}]
      /\ RequestsAreOwned' /\ EndedIsRefused' /\ ToldIsAccepted'
  BY <1>1, <1>2, <1>3, AnswerKeeps
<1>5. TypeOK'
  BY <1>1, <1>4 DEF TypeOK, history
<1>6. TableIsTrue'
  BY <1>1, TableStays DEF history
<1> QED BY <1>4, <1>5, <1>6 DEF TokenInvariant

LEMMA ServeCurrentKeeps ==
  ASSUME TokenInvariant, NEW s \in Slot, ServeCurrent(s)
  PROVE  TokenInvariant'
<1>1. PICK c \in {200, 403, 404} : Answers(s, c)
  BY DEF ServeCurrent
<1>2. Handles(s, "current") /\ UNCHANGED <<auth, host_tokens, history>>
  BY DEF ServeCurrent, store
<1>3. beat' \in [Host -> Host \cup {Operator, None}] /\ flag' \in [Host -> BOOLEAN]
  BY DEF ServeCurrent, store, TokenInvariant, TypeOK
<1> QED BY <1>1, <1>2, <1>3, HandledKeeps DEF Status

(* Who a request speaks for is a host, the operator or nobody. *)
LEMMA BoundFacts ==
  ASSUME TypeOK, NEW s \in Slot, req[s] # None
  PROVE  /\ Bound(req[s]) \in Host \cup {Operator, None}
         /\ req[s].principal \in Host \cup {Operator, None}
BY DEF TypeOK, Request, Bound

LEMMA HeartbeatKeeps ==
  ASSUME TokenInvariant, NEW s \in Slot, NEW applied \in BOOLEAN, Heartbeat(s, applied)
  PROVE  TokenInvariant'
<1>1. PICK c \in {204, 400, 403} : Answers(s, c)
  BY DEF Heartbeat
<1>2. Handles(s, "heartbeat") /\ UNCHANGED <<auth, host_tokens, history>>
  BY DEF Heartbeat, store
<1>3. TypeOK /\ req[s].principal \in Host \cup {Operator, None}
  BY <1>2, BoundFacts DEF TokenInvariant, Handles
<1>4. beat' \in [Host -> Host \cup {Operator, None}]
  BY <1>3 DEF Heartbeat, store, TypeOK
<1>5. flag' \in [Host -> BOOLEAN]
  <2>1. PICK h : flag' \in {flag, [flag EXCEPT ![h] = flag[h] /\ ~applied]}
    BY DEF Heartbeat, store
  <2>2. PICK b \in BOOLEAN : b = (flag[h] /\ ~applied)
    OBVIOUS
  <2>3. flag' \in {flag, [flag EXCEPT ![h] = b]}
    BY <2>1, <2>2, Zenon
  <2> QED BY <1>3, <2>3 DEF TypeOK
<1> QED BY <1>1, <1>2, <1>4, <1>5, HandledKeeps DEF Status

LEMMA RequestResyncKeeps ==
  ASSUME TokenInvariant, NEW s \in Slot, RequestResync(s)
  PROVE  TokenInvariant'
<1>1. Handles(s, "resync") /\ Answers(s, 204) /\ UNCHANGED <<auth, host_tokens, history>>
  BY DEF RequestResync
<1>2. beat' \in [Host -> Host \cup {Operator, None}] /\ flag' \in [Host -> BOOLEAN]
  BY DEF RequestResync, TokenInvariant, TypeOK
<1> QED BY <1>1, <1>2, HandledKeeps DEF Status

(* Whom a token stands for: with authentication on, the operator's for the
   operator and any other for the host it was drawn for, if it is not ended. *)
LEMMA PrincipalFacts ==
  ASSUME TokenInvariant, NEW t \in Token \cup {Operator, None}
  PROVE  /\ Principals(t) \subseteq Host \cup {Operator}
         /\ auth => \A p \in Principals(t) :
              (p = Operator /\ t = Operator) \/ (t \in DrawnFor(p) /\ t \notin ended)
         /\ t \in Token /\ owner[t] # None /\ Principals(t) = {} => t \in ended
         /\ Principals(Operator) # {}
<1>1. \A r \in host_tokens :
        /\ r.host \in Host /\ r.token \in Token
        /\ owner[r.token] = r.host /\ r.token \notin ended
  BY DEF TokenInvariant, TypeOK, TableIsTrue, Row
<1>2. \A p \in HostsFor(t) : p \in Host /\ t \in DrawnFor(p) /\ t \notin ended
  BY <1>1 DEF HostsFor, DrawnFor
<1>3. Principals(t) \subseteq Host \cup {Operator}
  BY <1>2 DEF Principals
<1>4. auth => \A p \in Principals(t) :
        (p = Operator /\ t = Operator) \/ (t \in DrawnFor(p) /\ t \notin ended)
  BY <1>2 DEF Principals
<1>5. ASSUME t \in Token, owner[t] # None, Principals(t) = {} PROVE t \in ended
  <2>1. HostsFor(t) = {}
    BY <1>5 DEF Principals
  <2>2. ~\E r \in host_tokens : r.token = t
    BY <2>1 DEF HostsFor
  <2> QED BY <1>5, <2>2 DEF TokenInvariant, TableIsTrue
<1>6. Principals(Operator) # {}
  BY DEF Principals
<1> QED BY <1>3, <1>4, <1>5, <1>6

LEMMA AuthenticateKeeps ==
  ASSUME TokenInvariant, NEW s \in Slot, Authenticate(s)
  PROVE  TokenInvariant'
<1> DEFINE t == req[s].token
<1>1. TypeOK /\ RequestsAreOwned /\ EndedIsRefused /\ ToldIsAccepted /\ TableIsTrue
  BY DEF TokenInvariant
<1>2. /\ req[s] # None /\ req[s].principal = None /\ req[s].status = 0
      /\ UNCHANGED <<auth, store, history>>
  BY DEF Authenticate
<1>3. req[s] \in Request /\ ServedForItsOwn(req[s])
  BY <1>1, <1>2 DEF TypeOK, RequestsAreOwned
<1>4. t \in Token \cup {Operator, None} /\ (t \in Token => owner[t] # None)
  BY <1>3 DEF Request, ServedForItsOwn
<1>5. Grows
  BY <1>2 DEF Grows, history
<1>6. TableIsTrue'
  BY <1>1, <1>2, TableStays DEF store, history
<1>7. \A p \in Principals(t) :
        /\ p \in Host \cup {Operator}
        /\ ~(auth /\ req[s].late)
        /\ auth => (p = Operator /\ t = Operator) \/ t \in DrawnFor(p)
  <2>1. auth /\ req[s].late => t \in ended
    BY <1>2, <1>3 DEF ServedForItsOwn
  <2>2. Operator \notin ended
    BY <1>1, OperatorAssumption DEF TypeOK
  <2> QED BY <1>4, <2>1, <2>2, PrincipalFacts
<1>8. ASSUME NEW c \in Status \ {0}, Answers(s, c), auth /\ req[s].late => c = 401,
             c = 401 => t \in ended \cup {None}
      PROVE  TokenInvariant'
  <2>1. /\ req' \in [Slot -> Request \cup {None}]
        /\ RequestsAreOwned' /\ EndedIsRefused' /\ ToldIsAccepted'
    BY <1>1, <1>2, <1>5, <1>8, AnswerKeeps
  <2>2. TypeOK'
    BY <1>1, <1>2, <2>1 DEF TypeOK, store, history
  <2> QED BY <1>6, <2>1, <2>2 DEF TokenInvariant
<1>9. CASE Principals(t) = {} /\ Answers(s, 401)
  <2>1. t \in ended \cup {None}
    BY <1>4, <1>9, PrincipalFacts
  <2> QED BY <1>8, <1>9, <2>1 DEF Status
<1>10. ASSUME NEW p \in Principals(t), NEW c \in {403, 409}, Answers(s, c)
       PROVE  TokenInvariant'
  BY <1>7, <1>8, <1>10 DEF Status
<1>11. ASSUME NEW p \in Principals(t), req' = [req EXCEPT ![s].principal = p]
       PROVE  TokenInvariant'
  <2>0. [req[s] EXCEPT !.principal = p] \in Request
    BY <1>3, <1>7, <1>11 DEF Request
  <2>1. PICK a \in Request : a = [req[s] EXCEPT !.principal = p]
    BY <2>0
  <2>2. /\ a.kind = req[s].kind /\ a.host = req[s].host /\ a.token = req[s].token
        /\ a.drawn = req[s].drawn /\ a.late = req[s].late /\ a.status = 0
        /\ a.principal = p
    BY <1>2, <1>3, <2>1 DEF Request
  <2>3. req' = [req EXCEPT ![s] = a]
    BY <1>11, <2>1
  <2>4. ServedForItsOwn(a)'
    BY <1>2, <1>3, <1>7, <1>11, <2>2 DEF ServedForItsOwn, history, DrawnFor
  <2>5. /\ auth /\ a.late => a.status \in {0, 401}
        /\ a.status = 401 => a.token \in ended' \cup {None}
    BY <2>2
  <2>6. RequestsAreOwned' /\ EndedIsRefused' /\ ToldIsAccepted'
    BY <1>1, <1>5, <2>3, <2>4, <2>5, RequestsStay DEF ServedForItsOwn, DrawnFor
  <2>7. TypeOK'
    BY <1>1, <1>2, <2>3 DEF TypeOK, store, history
  <2> QED BY <1>6, <2>6, <2>7 DEF TokenInvariant
<1> QED BY <1>9, <1>10, <1>11 DEF Authenticate

LEMMA IssueKeeps ==
  ASSUME TokenInvariant, NEW s \in Slot, NEW h \in Host, NEW t \in Token,
         IssueHostToken(s, h, t)
  PROVE  TokenInvariant'
<1> DEFINE new == [host |-> h, token |-> t]
<1>1. TypeOK /\ RequestsAreOwned /\ EndedIsRefused /\ ToldIsAccepted /\ TableIsTrue
  BY DEF TokenInvariant
<1>2. /\ Handles(s, "issue") /\ owner[t] = None
      /\ req' = [req EXCEPT ![s] = [Answer(@, 201) EXCEPT !.drawn = t]]
      /\ owner' = [owner EXCEPT ![t] = h]
      /\ ended' = ended \cup DrawnFor(h)
      /\ UNCHANGED <<auth, beat, flag, told>>
      /\ host_tokens' = (host_tokens \ RowsOf(h)) \cup {new}
  BY DEF IssueHostToken, Issued
<1>3. h # None /\ new \in Row /\ new.host = h /\ new.token = t
  BY NoneAssumption DEF Row
<1>4. \A x \in Token : owner'[x] = IF x = t THEN h ELSE owner[x]
  BY <1>1, <1>2 DEF TypeOK
<1>5. Grows
  BY <1>2, <1>4 DEF Grows
<1>6. \A r \in host_tokens :
        /\ r \in Row /\ r.token \in Token /\ r.token # t
        /\ owner[r.token] = r.host /\ r.token \notin ended
        /\ r.host = h <=> r \in RowsOf(h)
  BY <1>1, <1>2, NoneAssumption DEF TypeOK, TableIsTrue, Row, RowsOf
<1>7. \A x \in Token : x \in DrawnFor(h) <=> owner[x] = h
  BY DEF DrawnFor
<1>8. TableIsTrue'
  <2>1. \A r \in host_tokens' : owner'[r.token] = r.host /\ r.token \notin ended'
    <3>1. t \notin ended'
      BY <1>1, <1>2, <1>3, <1>7 DEF TableIsTrue
    <3>2. \A r \in host_tokens \ RowsOf(h) :
            owner'[r.token] = r.host /\ r.token \notin ended'
      BY <1>2, <1>4, <1>6, <1>7
    <3> QED BY <1>2, <1>3, <1>4, <3>1, <3>2
  <2>2. ASSUME NEW x \in Token, owner'[x] # None, x \notin ended'
        PROVE  \E r \in host_tokens' : r.token = x
    <3>1. CASE x = t
      BY <3>1, <1>2, <1>3
    <3>2. CASE x # t
      <4>1. PICK r \in host_tokens : r.token = x
        BY <1>1, <1>2, <1>4, <2>2, <3>2 DEF TableIsTrue
      <4>2. r \notin RowsOf(h)
        BY <1>2, <1>6, <1>7, <2>2, <4>1
      <4> QED BY <1>2, <4>1, <4>2
    <3> QED BY <3>1, <3>2
  <2>3. \A x \in told' \cup ended' : owner'[x] # None
    BY <1>1, <1>2, <1>3, <1>4, <1>7 DEF TableIsTrue, TypeOK, DrawnFor
  <2> QED BY <2>1, <2>2, <2>3 DEF TableIsTrue
<1>9. req[s] # None /\ req[s] \in Request /\ ServedForItsOwn(req[s])
  BY <1>1, <1>2 DEF TypeOK, RequestsAreOwned, Handles
<1>10. PICK a \in Request : a = [Answer(req[s], 201) EXCEPT !.drawn = t]
  <2>1. Answer(req[s], 201) \in Request
    BY <1>9, AnswerFacts DEF Status
  <2>2. [Answer(req[s], 201) EXCEPT !.drawn = t] \in Request
    BY <2>1 DEF Request
  <2> QED BY <2>2
<1>11. /\ a.kind = "current" /\ a.principal = None /\ a.status = 201
       /\ a.token = None /\ a.drawn = t /\ a.late = req[s].late
  BY <1>9, <1>10 DEF Answer
<1>12. req' = [req EXCEPT ![s] = a]
  BY <1>2, <1>10
<1>13. ServedForItsOwn(a)'
  BY <1>3, <1>4, <1>11, NoneAssumption DEF ServedForItsOwn, ForOperator
<1>14. /\ auth /\ a.late => a.status \in {0, 401}
       /\ a.status = 401 => a.token \in ended' \cup {None}
  BY <1>2, <1>9, <1>11 DEF ServedForItsOwn, Handles
<1>15. RequestsAreOwned' /\ EndedIsRefused' /\ ToldIsAccepted'
  BY <1>1, <1>5, <1>12, <1>13, <1>14, RequestsStay DEF ServedForItsOwn, DrawnFor
<1>16. TypeOK'
  <2>1. host_tokens' \subseteq Row
    BY <1>2, <1>3, <1>6
  <2>2. \A r, q \in host_tokens' : r.host = q.host \/ r.token = q.token => r = q
    BY <1>1, <1>2, <1>3, <1>6 DEF TypeOK
  <2>3. req' \in [Slot -> Request \cup {None}]
    BY <1>1, <1>12 DEF TypeOK
  <2>4. ended' \subseteq Token /\ owner' \in [Token -> Host \cup {None}]
    BY <1>1, <1>2 DEF TypeOK, DrawnFor
  <2> QED BY <1>1, <1>2, <2>1, <2>2, <2>3, <2>4 DEF TypeOK
<1> QED BY <1>8, <1>15, <1>16 DEF TokenInvariant

LEMMA RevokeKeeps ==
  ASSUME TokenInvariant, NEW s \in Slot, RevokeHostToken(s)
  PROVE  TokenInvariant'
<1> DEFINE h == req[s].host
<1>1. TypeOK /\ RequestsAreOwned /\ EndedIsRefused /\ ToldIsAccepted /\ TableIsTrue
  BY DEF TokenInvariant
<1>2. /\ Handles(s, "revoke")
      /\ host_tokens' = host_tokens \ RowsOf(h)
      /\ ended' = ended \cup DrawnFor(h)
      /\ UNCHANGED <<auth, beat, flag, told, owner>>
  BY DEF RevokeHostToken
<1>3. PICK c \in {204, 404} : Answers(s, c)
  BY DEF RevokeHostToken
<1>4. Grows
  BY <1>2 DEF Grows
<1>5. req[s] # None /\ h # None /\ ~(auth /\ req[s].late)
  BY <1>1, <1>2 DEF Handles, RequestsAreOwned, ServedForItsOwn, ForOperator
<1>6. /\ req' \in [Slot -> Request \cup {None}]
      /\ RequestsAreOwned' /\ EndedIsRefused' /\ ToldIsAccepted'
  BY <1>1, <1>3, <1>4, <1>5, AnswerKeeps DEF Status
<1>7. TableIsTrue'
  BY <1>1, <1>2, <1>5 DEF TableIsTrue, TypeOK, Row, RowsOf, DrawnFor
<1>8. TypeOK'
  BY <1>1, <1>2, <1>6 DEF TypeOK, DrawnFor
<1> QED BY <1>6, <1>7, <1>8 DEF TokenInvariant

-----------------------------------------------------------------------------
(* The theorems. *)

(* Every step keeps what is true of the token table and of the requests. *)
LEMMA TokenNext == TokenInvariant /\ [Next]_vars => TokenInvariant'
<1> SUFFICES ASSUME TokenInvariant, [Next]_vars PROVE TokenInvariant'
  OBVIOUS
<1>1. CASE UNCHANGED vars
  BY <1>1 DEF vars, store, history, TokenInvariant, TypeOK, TableIsTrue,
     RequestsAreOwned, ServedForItsOwn, DrawnFor, EndedIsRefused, ToldIsAccepted
<1>2. ASSUME NEW s \in Slot, Serve(s) PROVE TokenInvariant'
  <2>1. CASE Authenticate(s)
    BY <2>1, AuthenticateKeeps
  <2>2. CASE ServeCurrent(s)
    BY <2>2, ServeCurrentKeeps
  <2>3. CASE RequestResync(s)
    BY <2>3, RequestResyncKeeps
  <2>4. CASE \E applied \in BOOLEAN : Heartbeat(s, applied)
    BY <2>4, HeartbeatKeeps
  <2>5. CASE \E h \in Host, t \in Token : IssueHostToken(s, h, t)
    BY <2>5, IssueKeeps
  <2>6. CASE RevokeHostToken(s)
    BY <2>6, RevokeKeeps
  <2> QED BY <1>2, <2>1, <2>2, <2>3, <2>4, <2>5, <2>6 DEF Serve
<1>3. ASSUME NEW s \in Slot, Arrive(s) PROVE TokenInvariant'
  BY <1>3, ArriveKeeps
<1>4. ASSUME NEW s \in Slot, NEW kind \in ForHosts \cup ForOperator,
             NEW digest \in Token \cup {Operator, None}, NEW host \in Host \cup {None},
             Send(s, kind, digest, host)
      PROVE  TokenInvariant'
  BY <1>4, SendKeeps
<1> QED BY <1>1, <1>2, <1>3, <1>4 DEF Next

(* A token is accepted from the moment an answer tells it until it is replaced
   or revoked, and never after, whatever overtakes what (authenticate,
   IssueHostToken, RevokeHostToken). *)
THEOREM TokenInvariantAlways == Spec => []TokenInvariant
<1>1. Init => TokenInvariant
  BY TokenInit
<1>2. TokenInvariant /\ [Next]_vars => TokenInvariant'
  BY TokenNext
<1> QED BY <1>1, <1>2, PTL DEF Spec

(* No other step than a heartbeat touches the row of a host or clears its
   flag. *)
LEMMA OnlyHeartbeats ==
  ASSUME TokenInvariant, Next, NEW h \in Host,
         beat'[h] # beat[h] \/ (flag[h] /\ ~flag'[h])
  PROVE  \E s \in Slot, applied \in BOOLEAN : Heartbeat(s, applied)
<1>1. ASSUME NEW s \in Slot, RequestResync(s) PROVE beat' = beat /\ (flag[h] => flag'[h])
  BY <1>1 DEF RequestResync, TokenInvariant, TypeOK
<1>2. ASSUME NEW s \in Slot,
             Authenticate(s) \/ ServeCurrent(s) \/ RevokeHostToken(s) \/ Arrive(s)
      PROVE  UNCHANGED <<beat, flag>>
  BY <1>2 DEF Authenticate, ServeCurrent, RevokeHostToken, Arrive, store
<1>3. ASSUME NEW s \in Slot, NEW g, NEW t, IssueHostToken(s, g, t)
      PROVE  UNCHANGED <<beat, flag>>
  BY <1>3 DEF IssueHostToken, Issued
<1>4. ASSUME NEW s, NEW kind, NEW digest, NEW host, Send(s, kind, digest, host)
      PROVE  UNCHANGED <<beat, flag>>
  BY <1>4 DEF Send, store
<1> QED BY <1>1, <1>2, <1>3, <1>4 DEF Next, Serve

(* "A subscriber can never speak for another host" (auth.go): with
   authentication on, the row of a host is written, and its resync request
   cleared, only by a heartbeat of the operator or with a token drawn for that
   host, whatever is rotated or revoked while the heartbeat is under way. *)
THEOREM SpeaksForItselfAlways == Spec => SpeaksForItself
<1>1. ASSUME TokenInvariant, [Next]_vars
      PROVE  [auth => \A h \in Host :
                beat'[h] # beat[h] \/ (flag[h] /\ ~flag'[h]) =>
                  \E s \in Slot :
                    /\ Handles(s, "heartbeat") /\ req'[s].status = 204
                    /\ req[s].token = Operator \/ req[s].token \in DrawnFor(h)]_vars
  <2> SUFFICES ASSUME Next, auth, NEW h \in Host,
                      beat'[h] # beat[h] \/ (flag[h] /\ ~flag'[h])
               PROVE  \E s \in Slot :
                        /\ Handles(s, "heartbeat") /\ req'[s].status = 204
                        /\ req[s].token = Operator \/ req[s].token \in DrawnFor(h)
    BY <1>1
  <2>1. PICK s \in Slot, applied \in BOOLEAN : Heartbeat(s, applied)
    BY <1>1, OnlyHeartbeats
  <2> DEFINE b == Bound(req[s])
  <2>2. /\ Handles(s, "heartbeat") /\ ~Foreign(req[s]) /\ Answers(s, 204)
        /\ beat' = [beat EXCEPT ![b] = req[s].principal]
        /\ flag' = [flag EXCEPT ![b] = @ /\ ~applied]
    BY <2>1 DEF Heartbeat, store
  <2>3. b = h
    BY <1>1, <2>2 DEF TokenInvariant, TypeOK
  <2>4. req[s].token = Operator \/ req[s].token \in DrawnFor(h)
    <3>1. ServedForItsOwn(req[s]) /\ req[s].principal # None
      BY <1>1, <2>2 DEF TokenInvariant, RequestsAreOwned, Handles
    <3>2. req[s].principal = Operator \/ req[s].principal = h
      BY <2>3 DEF Bound
    <3> QED BY <1>1, <3>1, <3>2, OperatorAssumption
            DEF ServedForItsOwn, DrawnFor, TokenInvariant, TypeOK
  <2>5. req'[s].status = 204
    BY <1>1, <2>2 DEF Answers, Answer, TokenInvariant, TypeOK
  <2> QED BY <2>2, <2>4, <2>5
<1>2. TokenInvariant /\ [Next]_vars => TokenInvariant'
  BY TokenNext
<1>3. Init => TokenInvariant
  BY TokenInit
<1> QED BY <1>1, <1>2, <1>3, PTL DEF Spec, SpeaksForItself

-----------------------------------------------------------------------------
(* The start of a server. *)

(* The constants mean what their comments say. *)
Bounds == MaxToken \in Nat /\ MaxStart \in Nat /\ None \notin Main!Content

-----------------------------------------------------------------------------
(* The inductive invariant. *)

(* What a process has by the step it is at: the flags that brought it there
   and, before checkListenAddr looks at it, the token it was to have. *)
ReadyForItsStep ==
  \A p \in Proc :
    /\ pc[p] \in {"bootstrap", "write", "load"} => conf[p].tokenFile
    /\ pc[p] = "write" => conf[p].init /\ loaded[p] # None
    /\ pc[p] \in {"gate", "serving"} =>
         ~conf[p].init /\ (conf[p].tokenFile => Main!Acceptable(loaded[p]))

(* Every process that fills a token file has a token of its own, which is not
   newer than the last one drawn. *)
WritersApart ==
  \A p \in Proc : pc[p] = "write" =>
    /\ loaded[p].token <= drawn
    /\ \A q \in Proc \ {p} : pc[q] = "write" => loaded[q].token # loaded[p].token

(* The token file is as old as what was drawn; as long as somebody is to fill
   it, it is empty. *)
FilledOnce ==
  file # None =>
    /\ file.token <= drawn
    /\ \A p \in Proc : pc[p] = "write" /\ loaded[p].token = file.token => file.size = "empty"

(* A start reports a token it could load. *)
ReportedIsWhole == reported # None => Main!Acceptable(reported)

StartInductive ==
  Main!StartInvariant /\ ReadyForItsStep /\ WritersApart /\ FilledOnce /\ ReportedIsWhole

-----------------------------------------------------------------------------
(* The steps.  A step of one process leaves what the others have alone. *)

LEMMA StartInit == ASSUME Bounds PROVE Main!Init => StartInductive
<1> SUFFICES ASSUME Main!Init PROVE StartInductive
  OBVIOUS
<1>0. Main!Unset \in Main!Conf /\ Main!Unset.cert = Main!Unset.key /\ ~Main!Unset.init
  BY DEF Main!Unset, Main!Conf
<1>1. Main!TypeOK
  BY <1>0 DEF Bounds, Main!Init, Main!TypeOK
<1>2. Main!StartInvariant
  BY <1>1 DEF Main!Init, Main!StartInvariant, Main!NeverExposed, Main!AuthenticatesAsAsked,
              Main!ReportedStands
<1> QED
  BY <1>2 DEF Main!Init, StartInductive, ReadyForItsStep, WritersApart, FilledOnce,
              ReportedIsWhole

(* A process that ends leaves nothing behind that was not there. *)
LEMMA EndsKeeps ==
  ASSUME Bounds, StartInductive, NEW p \in Proc, Main!Ends(p),
         UNCHANGED <<file, drawn, starts>>,
         reported' # None => reported' = file /\ Main!Acceptable(file)
  PROVE  StartInductive'
<1> USE DEF StartInductive, Main!StartInvariant
<1>1. /\ pc'[p] = "down" /\ conf'[p] = Main!Unset /\ loaded'[p] = None
      /\ \A q \in Proc \ {p} : pc'[q] = pc[q] /\ conf'[q] = conf[q] /\ loaded'[q] = loaded[q]
  BY DEF Main!TypeOK, Main!Ends, Main!Goes
<1>2. Main!TypeOK'
  BY DEF Bounds, Main!TypeOK, Main!Ends, Main!Goes, Main!Unset, Main!Conf
<1>3. Main!NeverExposed' /\ Main!AuthenticatesAsAsked'
  BY <1>1 DEF Main!NeverExposed, Main!AuthenticatesAsAsked
<1>4. Main!ReportedStands' /\ ReportedIsWhole'
  BY DEF Main!ReportedStands, ReportedIsWhole, Main!Acceptable
<1>5. ReadyForItsStep'
  BY <1>1 DEF ReadyForItsStep, Main!Acceptable
<1>6. WritersApart' /\ FilledOnce'
  BY <1>1 DEF WritersApart, FilledOnce
<1> QED BY <1>2, <1>3, <1>4, <1>5, <1>6

(* A process that goes on, and draws nothing, keeps the file as it is. *)
LEMMA GoesKeeps ==
  ASSUME Bounds, StartInductive, NEW p \in Proc,
         NEW step \in {"bootstrap", "load", "gate", "serving"}, Main!Goes(p, step),
         NEW c \in Main!Conf, conf' = [conf EXCEPT ![p] = c],
         NEW a \in Main!Content \cup {None}, loaded' = [loaded EXCEPT ![p] = a],
         c.cert = c.key, c.init => c.tokenFile,
         step \in {"bootstrap", "load"} => c.tokenFile,
         step \in {"gate", "serving"} => ~c.init /\ (c.tokenFile => Main!Acceptable(a)),
         step = "serving" => c.listen = "loopback" \/ c.insecure \/ (a # None /\ c.cert),
         UNCHANGED <<file, drawn, reported>>, starts' \in 0..MaxStart
  PROVE  StartInductive'
<1> USE DEF StartInductive, Main!StartInvariant
<1>1. /\ pc'[p] = step /\ conf'[p] = c /\ loaded'[p] = a
      /\ \A q \in Proc \ {p} : pc'[q] = pc[q] /\ conf'[q] = conf[q] /\ loaded'[q] = loaded[q]
  BY DEF Main!TypeOK, Main!Goes
<1>2. Main!TypeOK'
  BY <1>1 DEF Bounds, Main!TypeOK, Main!Goes
<1>3. Main!NeverExposed' /\ Main!AuthenticatesAsAsked'
  BY <1>1 DEF Main!NeverExposed, Main!AuthenticatesAsAsked, Main!Acceptable
<1>4. Main!ReportedStands' /\ ReportedIsWhole'
  BY DEF Main!ReportedStands, ReportedIsWhole, Main!Acceptable
<1>5. ReadyForItsStep'
  BY <1>1 DEF ReadyForItsStep, Main!Acceptable
<1>6. WritersApart' /\ FilledOnce'
  BY <1>1 DEF WritersApart, FilledOnce
<1> QED BY <1>2, <1>3, <1>4, <1>5, <1>6

LEMMA SupplyKeeps ==
  ASSUME Bounds, StartInductive, NEW size \in Main!Size, Main!Supply(size)
  PROVE  StartInductive'
<1> USE DEF StartInductive, Main!StartInvariant, Main!Supply, Main!proc
<1>1. Main!TypeOK'
  BY DEF Bounds, Main!TypeOK, Main!Content
<1>2. drawn \in Nat /\ file' = [token |-> drawn + 1, size |-> size]
  BY DEF Bounds, Main!TypeOK
<1>3. Main!NeverExposed' /\ Main!AuthenticatesAsAsked' /\ ReadyForItsStep'
  BY DEF Main!NeverExposed, Main!AuthenticatesAsAsked, ReadyForItsStep
<1>4. Main!ReportedStands' /\ ReportedIsWhole'
  BY DEF Main!ReportedStands, ReportedIsWhole
<1>5. \A p \in Proc : pc[p] = "write" => loaded[p].token \in Nat
  BY DEF ReadyForItsStep, Main!TypeOK, Main!Content
<1>6. WritersApart' /\ FilledOnce'
  BY <1>2, <1>5 DEF WritersApart, FilledOnce
<1> QED BY <1>1, <1>3, <1>4, <1>6

LEMMA RemoveKeeps ==
  ASSUME Bounds, StartInductive, Main!Remove
  PROVE  StartInductive'
<1> USE DEF StartInductive, Main!StartInvariant, Main!Remove, Main!proc
<1>1. Main!TypeOK' /\ Main!NeverExposed' /\ Main!AuthenticatesAsAsked' /\ ReadyForItsStep'
  BY DEF Main!TypeOK, Main!NeverExposed, Main!AuthenticatesAsAsked, ReadyForItsStep
<1>2. Main!ReportedStands' /\ ReportedIsWhole' /\ WritersApart' /\ FilledOnce'
  BY DEF Main!ReportedStands, ReportedIsWhole, WritersApart, FilledOnce
<1> QED BY <1>1, <1>2

(* The file that is created has a token nobody else has, and no start has
   reported it: there was no file. *)
LEMMA CreateKeeps ==
  ASSUME Bounds, StartInductive, NEW p \in Proc, Main!Create(p)
  PROVE  StartInductive'
<1> USE DEF StartInductive, Main!StartInvariant
<1> DEFINE own == [token |-> drawn + 1, size |-> "whole"]
<1>1. /\ drawn \in Nat /\ drawn' = drawn + 1 /\ drawn' \in 0..MaxToken
      /\ file = None /\ file' = [token |-> drawn + 1, size |-> "empty"]
      /\ conf' = conf /\ starts' = starts /\ reported' = reported
      /\ conf[p].init /\ conf[p].tokenFile
  BY DEF Bounds, Main!TypeOK, Main!Create
<1>2. own \in Main!Content /\ file' \in Main!Content
  BY <1>1 DEF Main!Content, Main!Size
<1>3. /\ pc'[p] = "write" /\ loaded'[p] = own
      /\ \A q \in Proc \ {p} : pc'[q] = pc[q] /\ loaded'[q] = loaded[q]
  BY DEF Main!TypeOK, Main!Create, Main!Goes
<1>4. Main!TypeOK'
  <2>1. pc' \in [Proc -> {"down", "bootstrap", "write", "load", "gate", "serving"}]
        /\ loaded' \in [Proc -> Main!Content \cup {None}]
    BY <1>2 DEF Main!TypeOK, Main!Create, Main!Goes
  <2> QED BY <1>1, <1>2, <1>3, <2>1 DEF Main!TypeOK
<1>5. Main!NeverExposed' /\ Main!AuthenticatesAsAsked'
  BY <1>1, <1>3 DEF Main!NeverExposed, Main!AuthenticatesAsAsked
<1>6. reported = None
  BY <1>1 DEF Main!ReportedStands
<1>7. ReadyForItsStep'
  BY <1>1, <1>2, <1>3 DEF ReadyForItsStep, Bounds, Main!Acceptable
<1>8. \A q \in Proc : pc[q] = "write" => loaded[q].token \in Nat /\ loaded[q].token <= drawn
  BY DEF ReadyForItsStep, WritersApart, Main!TypeOK, Main!Content
<1>9. WritersApart'
  BY <1>1, <1>3, <1>8 DEF WritersApart
<1>10. FilledOnce'
  BY <1>1, <1>3, <1>8 DEF FilledOnce
<1> QED
  BY <1>1, <1>4, <1>5, <1>6, <1>7, <1>9, <1>10 DEF Main!ReportedStands, ReportedIsWhole

(* A process that fills a file fills one that was empty, which no start has
   reported; the file of another token it leaves alone. *)
LEMMA WriteKeeps ==
  ASSUME Bounds, StartInductive, NEW p \in Proc, Main!Write(p)
  PROVE  StartInductive'
<1> USE DEF StartInductive, Main!StartInvariant
<1>1. PICK size \in Main!Size :
        /\ IF size = "whole" THEN Main!Goes(p, "load") /\ UNCHANGED <<conf, loaded>>
              ELSE Main!Ends(p)
        /\ file' = IF file # None /\ file.token = loaded[p].token
                     THEN [file EXCEPT !.size = size] ELSE file
  BY DEF Main!Write
<1>2. /\ pc[p] = "write" /\ drawn' = drawn /\ starts' = starts /\ reported' = reported
      /\ conf[p].init /\ conf[p].tokenFile /\ loaded[p] # None
  BY DEF Main!Write, ReadyForItsStep
<1>3. /\ pc'[p] \in {"load", "down"}
      /\ conf'[p] = IF pc'[p] = "load" THEN conf[p] ELSE Main!Unset
      /\ loaded'[p] = IF pc'[p] = "load" THEN loaded[p] ELSE None
      /\ \A q \in Proc \ {p} : pc'[q] = pc[q] /\ conf'[q] = conf[q] /\ loaded'[q] = loaded[q]
  BY <1>1 DEF Main!TypeOK, Main!Ends, Main!Goes
<1>4. file' # None => /\ file # None /\ file.token = file'.token
                      /\ file'.token = loaded[p].token \/ file' = file
  BY <1>1 DEF Main!TypeOK, Main!Content
<1>5. file' # file => file # None /\ file.size = "empty"
  BY <1>1, <1>2 DEF FilledOnce
<1>6. Main!TypeOK'
  <2>1. file' \in Main!Content \cup {None}
    BY <1>1 DEF Main!TypeOK, Main!Content
  <2>2. Main!Unset \in Main!Conf /\ Main!Unset.cert = Main!Unset.key /\ ~Main!Unset.init
    BY DEF Main!Unset, Main!Conf
  <2>3. /\ pc' \in [Proc -> {"down", "bootstrap", "write", "load", "gate", "serving"}]
        /\ conf' \in [Proc -> Main!Conf] /\ loaded' \in [Proc -> Main!Content \cup {None}]
    BY <1>1, <2>2 DEF Main!TypeOK, Main!Ends, Main!Goes
  <2> QED BY <1>2, <1>3, <2>1, <2>2, <2>3 DEF Main!TypeOK
<1>7. Main!NeverExposed' /\ Main!AuthenticatesAsAsked'
  BY <1>3 DEF Main!NeverExposed, Main!AuthenticatesAsAsked
<1>8. Main!ReportedStands' /\ ReportedIsWhole'
  BY <1>2, <1>5 DEF Main!ReportedStands, ReportedIsWhole, Main!Acceptable
<1>9. ReadyForItsStep'
  BY <1>2, <1>3 DEF ReadyForItsStep, Main!Acceptable
<1>10. WritersApart'
  BY <1>2, <1>3 DEF WritersApart
<1>11. FilledOnce'
  BY <1>2, <1>3, <1>4 DEF FilledOnce, WritersApart
<1> QED BY <1>6, <1>7, <1>8, <1>9, <1>10, <1>11

(* The server that is loaded holds what is in the file; the start that was to
   provide it reports that, and ends. *)
LEMMA LoadKeeps ==
  ASSUME Bounds, StartInductive, NEW p \in Proc, Main!Load(p)
  PROVE  StartInductive'
<1>1. CASE Main!Acceptable(file) /\ ~conf[p].init
  <2>1. Main!Goes(p, "gate") /\ loaded' = [loaded EXCEPT ![p] = file]
    BY <1>1 DEF Main!Load
  <2>2. conf' = [conf EXCEPT ![p] = conf[p]] /\ conf[p] \in Main!Conf
        /\ conf[p].cert = conf[p].key
    BY <1>1 DEF Main!Load, StartInductive, Main!StartInvariant, Main!TypeOK
  <2>3. file \in Main!Content \cup {None} /\ UNCHANGED <<file, drawn, reported>>
        /\ starts' \in 0..MaxStart
    BY <1>1 DEF Main!Load, StartInductive, Main!StartInvariant, Main!TypeOK
  <2> QED BY <1>1, <2>1, <2>2, <2>3, GoesKeeps
<1>2. CASE ~(Main!Acceptable(file) /\ ~conf[p].init)
  <2>1. /\ Main!Ends(p) /\ UNCHANGED <<file, drawn, starts>>
        /\ reported' = IF Main!Acceptable(file) THEN file ELSE reported
    BY <1>2 DEF Main!Load
  <2>2. reported' # None => reported' = file /\ Main!Acceptable(file)
    BY <2>1 DEF StartInductive, Main!StartInvariant, Main!ReportedStands, ReportedIsWhole
  <2> QED BY <2>1, <2>2, EndsKeeps
<1> QED BY <1>1, <1>2

LEMMA GateKeeps ==
  ASSUME Bounds, StartInductive, NEW p \in Proc, Main!Gate(p)
  PROVE  StartInductive'
<1> DEFINE opens == /\ conf[p].listen # "invalid"
                    /\ \/ loaded[p] # None /\ conf[p].cert
                       \/ conf[p].insecure \/ conf[p].listen = "loopback"
<1>1. CASE opens
  <2>1. Main!Goes(p, "serving") /\ UNCHANGED <<conf, loaded, file, drawn, starts, reported>>
    BY <1>1 DEF Main!Gate, Main!Loopback
  <2>2. /\ conf' = [conf EXCEPT ![p] = conf[p]] /\ conf[p] \in Main!Conf
        /\ loaded' = [loaded EXCEPT ![p] = loaded[p]] /\ loaded[p] \in Main!Content \cup {None}
        /\ conf[p].cert = conf[p].key /\ starts' \in 0..MaxStart
    BY <2>1 DEF StartInductive, Main!StartInvariant, Main!TypeOK
  <2>3. ~conf[p].init /\ (conf[p].tokenFile => Main!Acceptable(loaded[p]))
    BY DEF Main!Gate, StartInductive, ReadyForItsStep
  <2> HIDE DEF opens
  <2>4. conf[p].listen = "loopback" \/ conf[p].insecure \/ (loaded[p] # None /\ conf[p].cert)
    BY <1>1 DEF opens
  <2> QED BY <2>1, <2>2, <2>3, <2>4, GoesKeeps
<1>2. CASE ~opens
  <2>1. Main!Ends(p) /\ UNCHANGED <<file, drawn, starts, reported>>
    BY <1>2 DEF Main!Gate, Main!Loopback
  <2>2. reported' # None => reported' = file /\ Main!Acceptable(file)
    BY <2>1 DEF StartInductive, Main!StartInvariant, Main!ReportedStands, ReportedIsWhole
  <2> QED BY <2>1, <2>2, EndsKeeps
<1> QED BY <1>1, <1>2

LEMMA StartKeeps ==
  ASSUME Bounds, StartInductive, NEW p \in Proc, NEW c \in Main!Conf, Main!Start(p, c)
  PROVE  StartInductive'
<1> DEFINE step == IF c.tokenFile THEN "bootstrap" ELSE "gate"
<1>1. step \in {"bootstrap", "load", "gate", "serving"} /\ step # "serving"
      /\ (step = "gate" => ~c.tokenFile) /\ (step # "gate" => c.tokenFile)
  BY DEF Main!Conf
<1>2. /\ Main!Goes(p, step) /\ c.cert = c.key /\ (c.init => c.tokenFile)
      /\ conf' = [conf EXCEPT ![p] = c]
      /\ UNCHANGED <<file, drawn, loaded, reported>>
  BY DEF Main!Start
<1>3. starts' \in 0..MaxStart
  BY DEF Bounds, Main!Start, StartInductive, Main!StartInvariant, Main!TypeOK
<1>4. loaded' = [loaded EXCEPT ![p] = loaded[p]] /\ loaded[p] \in Main!Content \cup {None}
  BY <1>2 DEF StartInductive, Main!StartInvariant, Main!TypeOK
<1> HIDE DEF step
<1>5. step \in {"gate", "serving"} => ~c.init /\ (c.tokenFile => Main!Acceptable(loaded[p]))
  BY <1>1, <1>2 DEF Main!Conf
<1>6. step \in {"bootstrap", "load"} => c.tokenFile
  BY <1>1
<1> QED BY <1>1, <1>2, <1>3, <1>4, <1>5, <1>6, GoesKeeps

(* The ways a process ends without having read the file. *)
LEMMA StopKeeps ==
  ASSUME Bounds, StartInductive, NEW p \in Proc, Main!Stop(p) \/ Main!Found(p)
  PROVE  StartInductive'
<1>1. Main!Ends(p) /\ UNCHANGED <<file, drawn, starts, reported>>
  BY DEF Main!Stop, Main!Found
<1>2. reported' # None => reported' = file /\ Main!Acceptable(file)
  BY <1>1 DEF StartInductive, Main!StartInvariant, Main!ReportedStands, ReportedIsWhole
<1> QED BY <1>1, <1>2, EndsKeeps

LEMMA StatKeeps ==
  ASSUME Bounds, StartInductive, NEW p \in Proc, Main!Stat(p)
  PROVE  StartInductive'
<1>1. Main!Goes(p, "load") /\ UNCHANGED <<file, drawn, starts, conf, loaded, reported>>
  BY DEF Main!Stat
<1>2. /\ conf' = [conf EXCEPT ![p] = conf[p]] /\ conf[p] \in Main!Conf
      /\ loaded' = [loaded EXCEPT ![p] = loaded[p]] /\ loaded[p] \in Main!Content \cup {None}
      /\ conf[p].cert = conf[p].key /\ starts' \in 0..MaxStart
      /\ conf[p].init => conf[p].tokenFile
  BY <1>1 DEF StartInductive, Main!StartInvariant, Main!TypeOK
<1>3. conf[p].tokenFile
  BY DEF Main!Stat, StartInductive, ReadyForItsStep
<1> QED BY <1>1, <1>2, <1>3, GoesKeeps

LEMMA StartNext == ASSUME Bounds PROVE StartInductive /\ [Main!Next]_(Main!vars) => StartInductive'
<1> SUFFICES ASSUME StartInductive, [Main!Next]_(Main!vars) PROVE StartInductive'
  OBVIOUS
<1>1. ASSUME NEW size \in Main!Size, Main!Supply(size) PROVE StartInductive'
  BY <1>1, SupplyKeeps
<1>2. CASE Main!Remove
  BY <1>2, RemoveKeeps
<1>3. ASSUME NEW p \in Proc, Main!Step(p) PROVE StartInductive'
  BY <1>3, StopKeeps, CreateKeeps, WriteKeeps, StatKeeps, LoadKeeps, GateKeeps DEF Main!Step
<1>4. ASSUME NEW p \in Proc, NEW c \in Main!Conf, Main!Start(p, c) PROVE StartInductive'
  BY <1>4, StartKeeps
<1>5. CASE UNCHANGED Main!vars
  <2>1. Main!TypeOK' /\ Main!NeverExposed' /\ Main!AuthenticatesAsAsked' /\ ReadyForItsStep'
    BY <1>5 DEF StartInductive, Main!StartInvariant, Main!TypeOK, Main!NeverExposed,
                Main!AuthenticatesAsAsked, ReadyForItsStep, Main!vars, Main!proc
  <2>2. Main!ReportedStands' /\ ReportedIsWhole' /\ WritersApart' /\ FilledOnce'
    BY <1>5 DEF StartInductive, Main!StartInvariant, Main!ReportedStands, ReportedIsWhole,
                WritersApart, FilledOnce, Main!vars, Main!proc
  <2> QED BY <2>1, <2>2 DEF StartInductive, Main!StartInvariant
<1> QED BY <1>1, <1>2, <1>3, <1>4, <1>5 DEF Main!Next

-----------------------------------------------------------------------------
(* What main and the token file promise, for any number of processes that are
   started with any flags, killed at any step, or run out of disk: no server
   takes requests from other machines without authentication and TLS unless
   it was told to, every one that was given a token file authenticates with
   what is a token, and a token that was reported stays in the file until a
   person touches it. *)
THEOREM StartsSafely == ASSUME Bounds PROVE Main!Spec => []StartInvariant
<1>1. Main!Init => StartInductive
  BY StartInit
<1>2. StartInductive /\ [Main!Next]_(Main!vars) => StartInductive'
  BY StartNext
<1>3. StartInductive => StartInvariant
  BY DEF StartInductive, StartInvariant
<1> QED BY <1>1, <1>2, <1>3, PTL DEF Main!Spec

-----------------------------------------------------------------------------
(* The session of a tab, for every set of tokens and of requests. *)

(* The sentinel is no token and no request. *)
NoneIsNoToken == None \notin Token \cup Tab!Request

(* A list before an operator without a token is being asked for without one,
   so that the answer will take the view away. *)
RefusalOnItsWay ==
  patient /\ valid # None /\ token = None /\ view \in Tab!Listing \cup {"newdoc"} =>
    \E s \in TabSlot : /\ fetched[s] # None /\ fetched[s].kind \in Tab!Listing
                       /\ fetched[s].token = None /\ ~fetched[s].newer

(* The login of a patient operator is the only request, before the login view. *)
LoginAlone ==
  \A s \in TabSlot : patient /\ fetched[s] # None /\ fetched[s].kind = "login" =>
    view = "login" /\ \A r \in TabSlot \ {s} : fetched[r] = None

(* A server with a token accepts no request without one. *)
NoneIsRefused ==
  \A s \in TabSlot : fetched[s] # None /\ fetched[s].token = None /\ valid # None =>
      fetched[s].status # 200

TabInductive == Tab!TabInvariant /\ RefusalOnItsWay /\ LoginAlone /\ NoneIsRefused

(* The parts make the whole. *)
LEMMA TabParts ==
  ASSUME Tab!TypeOK, Tab!HoldsWhatWasSubmitted, RefusalOnItsWay, LoginAlone, NoneIsRefused
  PROVE  TabInductive
<1>1. Tab!ListsHoldAToken
  BY DEF RefusalOnItsWay, Tab!ListsHoldAToken, Tab!Quiet
<1> QED BY <1>1 DEF TabInductive, Tab!TabInvariant

LEMMA TabInit == ASSUME NoneIsNoToken PROVE Tab!Init => TabInductive
<1> SUFFICES ASSUME Tab!Init PROVE TabInductive
  OBVIOUS
<1>1. PICK c \in Tab!Request : c = Tab!Fetch("boot", None) /\ c.kind = "boot" /\ c.status = 0
  <2>1. /\ Tab!Fetch("boot", None) \in Tab!Request
        /\ Tab!Fetch("boot", None).kind = "boot" /\ Tab!Fetch("boot", None).status = 0
    BY DEF Tab!Request, Tab!Fetch, Tab!Kind, Tab!Maybe
  <2> QED BY <2>1
<1>2. PICK s \in TabSlot : fetched = [r \in TabSlot |-> IF r = s THEN c ELSE None]
  BY <1>1 DEF Tab!Init
<1>3. Tab!TypeOK
  BY <1>2 DEF Tab!Init, Tab!TypeOK, Tab!Maybe, Tab!View
<1>4. Tab!HoldsWhatWasSubmitted /\ RefusalOnItsWay
  BY DEF Tab!Init, Tab!HoldsWhatWasSubmitted, RefusalOnItsWay, Tab!Listing
<1>5. LoginAlone /\ NoneIsRefused
  BY <1>1, <1>2 DEF LoginAlone, NoneIsRefused
<1> QED BY <1>3, <1>4, <1>5, TabParts

LEMMA FetchFacts ==
  ASSUME NEW kind \in Tab!Kind, NEW t \in Tab!Maybe
  PROVE  /\ Tab!Fetch(kind, t) \in Tab!Request
         /\ Tab!Fetch(kind, t).kind = kind /\ Tab!Fetch(kind, t).token = t
         /\ Tab!Fetch(kind, t).status = 0 /\ ~Tab!Fetch(kind, t).newer
BY DEF Tab!Request, Tab!Fetch

LEMMA SupersededFacts ==
  ASSUME NEW d \in Tab!Request
  PROVE  /\ [d EXCEPT !.newer = TRUE] \in Tab!Request
         /\ [d EXCEPT !.newer = TRUE].kind = d.kind
         /\ [d EXCEPT !.newer = TRUE].token = d.token
         /\ [d EXCEPT !.newer = TRUE].status = d.status
<1> DEFINE e == [d EXCEPT !.newer = TRUE]
<1>1. e \in Tab!Request
  BY DEF Tab!Request
<1>2. e.kind = d.kind
  BY DEF Tab!Request
<1>3. e.token = d.token
  BY DEF Tab!Request
<1>4. e.status = d.status
  BY DEF Tab!Request
<1> QED BY <1>1, <1>2, <1>3, <1>4

(* A handler starts: a request that carries the token of now, and the others
   as they were, but for those it supersedes. *)
LEMMA Started ==
  ASSUME NoneIsNoToken, Tab!TypeOK, NEW s \in TabSlot, NEW kind \in Tab!Kind,
         NEW t \in Tab!Maybe, Tab!Start(s, kind, t)
  PROVE  /\ fetched' \in [TabSlot -> Tab!Request \cup {None}]
         /\ fetched'[s] # None /\ fetched'[s].kind = kind /\ fetched'[s].token = t
         /\ fetched'[s].status = 0 /\ ~fetched'[s].newer
         /\ \A r \in TabSlot \ {s} :
              /\ fetched'[r] = None <=> fetched[r] = None
              /\ fetched[r] # None => /\ fetched'[r].kind = fetched[r].kind
                                      /\ fetched'[r].token = fetched[r].token
                                      /\ fetched'[r].status = fetched[r].status
<1>1. PICK c \in Tab!Request :
        /\ c = Tab!Fetch(kind, t) /\ c.kind = kind /\ c.token = t /\ c.status = 0 /\ ~c.newer
  BY FetchFacts
<1>2. fetched' = [Tab!Superseded(kind) EXCEPT ![s] = c]
  BY <1>1 DEF Tab!Start
<1>3. fetched'[s] = c /\ \A r \in TabSlot \ {s} : fetched'[r] = Tab!Superseded(kind)[r]
  BY <1>2 DEF Tab!Superseded
<1>4. ASSUME NEW r \in TabSlot \ {s}
      PROVE  \/ fetched'[r] = fetched[r]
             \/ \E d \in Tab!Request, e \in Tab!Request :
                  /\ d = fetched[r] /\ e = fetched'[r] /\ e.kind = d.kind /\ e.token = d.token
                  /\ e.status = d.status
  <2>1. CASE kind = "fleet" /\ fetched[r] # None /\ fetched[r].kind = "fleet"
    <3>1. PICK d \in Tab!Request : d = fetched[r]
      BY <2>1 DEF Tab!TypeOK
    <3> DEFINE e == [d EXCEPT !.newer = TRUE]
    <3>2. /\ e \in Tab!Request /\ e.kind = d.kind /\ e.token = d.token /\ e.status = d.status
      BY SupersededFacts
    <3>3. Tab!Superseded(kind)[r] = [fetched[r] EXCEPT !.newer = TRUE]
      BY <2>1 DEF Tab!Superseded
    <3>4. e = fetched'[r]
      BY <1>3, <3>1, <3>3
    <3> HIDE DEF e
    <3> QED BY <3>1, <3>2, <3>4
  <2>2. CASE ~(kind = "fleet" /\ fetched[r] # None /\ fetched[r].kind = "fleet")
    BY <1>3, <2>2 DEF Tab!Superseded
  <2> QED BY <2>1, <2>2
<1>5. fetched' \in [TabSlot -> Tab!Request \cup {None}]
  <2>1. \A r \in TabSlot : fetched'[r] \in Tab!Request \cup {None}
    BY <1>3, <1>4 DEF Tab!TypeOK
  <2>2. fetched' = [r \in TabSlot |-> fetched'[r]]
    BY <1>2 DEF Tab!Superseded
  <2> QED BY <2>1, <2>2
<1> QED BY <1>1, <1>3, <1>4, <1>5 DEF NoneIsNoToken

(* An answer ends a request, or goes on with another. *)
LEMMA Answered ==
  ASSUME NoneIsNoToken, TabInductive, patient' = patient, NEW s \in TabSlot, fetched[s] # None,
         UNCHANGED <<valid, submitted>>,
         NEW c \in Tab!Request \cup {None}, fetched' = [fetched EXCEPT ![s] = c],
         c # None => c.status = 0 /\ c.kind # "login",
         token' \in {None, token}, stored' = token', view' \in Tab!View,
         signOut' \in BOOLEAN, RefusalOnItsWay'
  PROVE  TabInductive'
<1> USE DEF TabInductive, Tab!TabInvariant
<1>1. fetched'[s] = c /\ \A r \in TabSlot \ {s} : fetched'[r] = fetched[r]
  BY DEF Tab!TypeOK
<1>2. Tab!TypeOK'
  BY DEF Tab!TypeOK, Tab!Maybe
<1>3. Tab!HoldsWhatWasSubmitted'
  BY DEF Tab!HoldsWhatWasSubmitted
<1>4. LoginAlone'
  BY <1>1 DEF LoginAlone
<1>5. NoneIsRefused'
  BY <1>1 DEF NoneIsRefused
<1>6. Tab!ListsHoldAToken'
  BY DEF RefusalOnItsWay, Tab!ListsHoldAToken, Tab!Quiet
<1> QED BY <1>2, <1>3, <1>4, <1>5, <1>6

(* The answers. *)
LEMMA AnswersKeep ==
  ASSUME NoneIsNoToken, TabInductive, patient' = patient, NEW s \in TabSlot,
         \/ Tab!Refused(s) \/ Tab!BootArrives(s) \/ Tab!LoginArrives(s)
         \/ Tab!ListingArrives(s) \/ Tab!PublishArrives(s)
  PROVE  TabInductive'
<1>0. Tab!TypeOK /\ RefusalOnItsWay /\ LoginAlone /\ NoneIsRefused
  BY DEF TabInductive, Tab!TabInvariant
<1>1. /\ fetched[s] # None /\ fetched[s] \in Tab!Request
      /\ fetched[s].status \in {200, 401, 500}
      /\ UNCHANGED <<valid, submitted>>
  BY <1>0 DEF Tab!Refused, Tab!BootArrives, Tab!LoginArrives, Tab!ListingArrives,
         Tab!PublishArrives, Tab!Arrives, Tab!TypeOK, Tab!Request
<1>2. token \in Tab!Maybe /\ stored = token /\ view \in Tab!View /\ signOut \in BOOLEAN
  BY <1>0 DEF Tab!TypeOK
<1>3. {"login", "browse", "error"} \subseteq Tab!View
  BY DEF Tab!View, Tab!Listing
<1>4. ASSUME NEW kind \in {"browse", "preview"}, Tab!Continues(s, kind)
      PROVE  \E c \in Tab!Request :
               /\ fetched' = [fetched EXCEPT ![s] = c]
               /\ c.kind = kind /\ c.token = token /\ c.status = 0 /\ ~c.newer
  <2>1. kind \in Tab!Kind
    BY DEF Tab!Kind, Tab!Listing
  <2>2. /\ Tab!Fetch(kind, token) \in Tab!Request
        /\ Tab!Fetch(kind, token).kind = kind /\ Tab!Fetch(kind, token).token = token
        /\ Tab!Fetch(kind, token).status = 0 /\ ~Tab!Fetch(kind, token).newer
    BY <1>2, <2>1, FetchFacts
  <2> QED BY <1>4, <2>2 DEF Tab!Continues
<1>5. \A c \in Tab!Request : fetched' = [fetched EXCEPT ![s] = c] => fetched'[s] = c /\ c # None
  BY <1>0 DEF Tab!TypeOK, NoneIsNoToken
<1>6. \A r \in TabSlot \ {s}, c \in Tab!Request \cup {None} :
        fetched' = [fetched EXCEPT ![s] = c] => fetched'[r] = fetched[r]
  BY <1>0 DEF Tab!TypeOK
<1>7. CASE Tab!Refused(s)
  <2>1. token' = None /\ stored' = None /\ view' = "login" /\ signOut' = signOut
        /\ fetched' = [fetched EXCEPT ![s] = None]
    BY <1>7 DEF Tab!Refused, Tab!Cleared, Tab!Ends
  <2>2. RefusalOnItsWay'
    BY <2>1 DEF RefusalOnItsWay, Tab!Listing
  <2>3. view' \in Tab!View /\ signOut' \in BOOLEAN /\ token' \in {None, token}
        /\ stored' = token'
    BY <1>2, <1>3, <2>1
  <2>4. UNCHANGED <<valid, submitted>> /\ fetched[s] # None
    BY <1>1
  <2>5. fetched' = [fetched EXCEPT ![s] = None]
    BY <2>1
  <2> QED BY <2>2, <2>3, <2>4, <2>5, Answered
<1>8. ASSUME view' = "browse", Tab!Continues(s, "browse"), UNCHANGED <<token, stored, signOut>>
      PROVE  TabInductive'
  <2>1. PICK c \in Tab!Request :
               /\ fetched' = [fetched EXCEPT ![s] = c]
               /\ c.kind = "browse" /\ c.token = token /\ c.status = 0 /\ ~c.newer
    BY <1>4, <1>8
  <2>2. RefusalOnItsWay'
    BY <1>5, <1>8, <2>1 DEF RefusalOnItsWay, Tab!Listing
  <2>3. view' \in Tab!View /\ signOut' \in BOOLEAN /\ token' = token /\ stored' = token'
    BY <1>2, <1>3, <1>8
  <2>4. UNCHANGED <<valid, submitted>> /\ fetched[s] # None
    BY <1>1
  <2>5. c.status = 0 /\ c.kind # "login" /\ fetched' = [fetched EXCEPT ![s] = c]
    BY <2>1
  <2> QED BY <2>2, <2>3, <2>4, <2>5, Answered
<1>9. CASE Tab!BootArrives(s)
  <2>1. CASE view' = "browse" /\ Tab!Continues(s, "browse") /\ UNCHANGED <<token, stored>>
    BY <1>8, <1>9, <2>1 DEF Tab!BootArrives
  <2>2. CASE /\ view' \in {"login", "error"} /\ Tab!Ends(s)
             /\ token' \in {None, token} /\ stored' = token'
    <3>1. RefusalOnItsWay'
      BY <2>2 DEF RefusalOnItsWay, Tab!Listing
    <3>2. signOut' = signOut /\ fetched' = [fetched EXCEPT ![s] = None]
      BY <1>9, <2>2 DEF Tab!BootArrives, Tab!Ends
    <3>3. view' \in Tab!View /\ signOut' \in BOOLEAN
      BY <1>2, <1>3, <2>2, <3>2
    <3>4. UNCHANGED <<valid, submitted>> /\ fetched[s] # None
      BY <1>1
    <3> QED BY <2>2, <3>1, <3>2, <3>3, <3>4, Answered
  <2> QED BY <1>2, <1>9, <2>1, <2>2 DEF Tab!BootArrives, Tab!Cleared
<1>10. CASE Tab!LoginArrives(s)
  <2>1. CASE view' = "browse" /\ Tab!Continues(s, "browse") /\ UNCHANGED <<token, stored>>
    BY <1>8, <1>10, <2>1 DEF Tab!LoginArrives
  <2>2. CASE /\ view' = view /\ Tab!Ends(s)
             /\ token' \in {None, token} /\ stored' = token'
    <3>1. fetched[s].kind = "login"
      BY <1>10 DEF Tab!LoginArrives, Tab!Arrives
    <3>2. patient => view = "login"
      BY <1>0, <1>1, <3>1 DEF LoginAlone
    <3>3. RefusalOnItsWay'
      BY <2>2, <3>2 DEF RefusalOnItsWay, Tab!Listing
    <3>4. signOut' = signOut /\ fetched' = [fetched EXCEPT ![s] = None]
      BY <1>10, <2>2 DEF Tab!LoginArrives, Tab!Ends
    <3>5. view' \in Tab!View /\ signOut' \in BOOLEAN
      BY <1>2, <2>2, <3>4
    <3>6. UNCHANGED <<valid, submitted>> /\ fetched[s] # None
      BY <1>1
    <3> QED BY <2>2, <3>3, <3>4, <3>5, <3>6, Answered
  <2> QED BY <1>2, <1>10, <2>1, <2>2 DEF Tab!LoginArrives, Tab!Cleared
<1>11. CASE Tab!ListingArrives(s)
  <2>1. /\ fetched' = [fetched EXCEPT ![s] = None]
        /\ view' = IF fetched[s].status = 200 \/ fetched[s].newer THEN view ELSE "error"
        /\ UNCHANGED <<token, stored>>
        /\ signOut' \in BOOLEAN
    BY <1>2, <1>11 DEF Tab!ListingArrives, Tab!Ends
  <2>2. RefusalOnItsWay'
    <3> SUFFICES ASSUME patient, valid # None, token = None,
                        view' \in Tab!Listing \cup {"newdoc"}
                 PROVE  \E r \in TabSlot : /\ fetched'[r] # None
                                           /\ fetched'[r].kind \in Tab!Listing
                                           /\ fetched'[r].token = None /\ ~fetched'[r].newer
      BY <1>1, <2>1 DEF RefusalOnItsWay
    <3>1. view' = view /\ (fetched[s].status = 200 \/ fetched[s].newer)
      BY <2>1 DEF Tab!Listing
    <3>2. PICK r \in TabSlot : /\ fetched[r] # None /\ fetched[r].kind \in Tab!Listing
                               /\ fetched[r].token = None /\ ~fetched[r].newer
      BY <1>0, <3>1 DEF RefusalOnItsWay
    <3>3. r # s
      BY <1>0, <3>1, <3>2 DEF NoneIsRefused
    <3> QED BY <1>6, <2>1, <3>2, <3>3
  <2>3. view' \in Tab!View /\ token' \in {None, token} /\ stored' = token'
    BY <1>2, <1>3, <2>1
  <2>4. UNCHANGED <<valid, submitted>> /\ fetched[s] # None
    BY <1>1
  <2>5. fetched' = [fetched EXCEPT ![s] = None] /\ signOut' \in BOOLEAN
    BY <2>1
  <2> QED BY <2>2, <2>3, <2>4, <2>5, Answered
<1>12. CASE Tab!PublishArrives(s)
  <2>1. UNCHANGED <<token, stored, view, signOut>> /\ fetched[s].kind \in {"publish", "preview"}
    BY <1>12 DEF Tab!PublishArrives, Tab!Arrives, Tab!page
  <2>2. PICK c \in Tab!Request \cup {None} :
          /\ fetched' = [fetched EXCEPT ![s] = c]
          /\ c # None => c.status = 0 /\ c.kind # "login"
    <3>1. CASE Tab!Continues(s, "preview")
      BY <1>4, <3>1
    <3>2. CASE Tab!Ends(s)
      BY <3>2 DEF Tab!Ends
    <3> QED BY <1>12, <3>1, <3>2 DEF Tab!PublishArrives
  <2>3. RefusalOnItsWay'
    <3>1. \A r \in TabSlot : fetched[r] # None /\ fetched[r].kind \in Tab!Listing =>
          fetched'[r] = fetched[r]
      BY <1>6, <2>1, <2>2 DEF Tab!Listing
    <3> QED BY <1>0, <1>1, <2>1, <3>1 DEF RefusalOnItsWay
  <2>4. /\ view' \in Tab!View /\ token' \in {None, token} /\ stored' = token'
        /\ signOut' \in BOOLEAN
    BY <1>2, <2>1
  <2>5. UNCHANGED <<valid, submitted>> /\ fetched[s] # None
    BY <1>1
  <2> QED BY <2>2, <2>3, <2>4, <2>5, Answered
<1> QED BY <1>7, <1>9, <1>10, <1>11, <1>12

(* A patient operator who starts a handler that is no login has none under
   way. *)
LEMMA NoLoginYet ==
  ASSUME Tab!Acts, patient
  PROVE  \A s \in TabSlot : fetched[s] # None => fetched[s].kind # "login"
BY DEF Tab!Acts

(* switchView, Retry and submitLogin. *)
LEMMA StartsKeep ==
  ASSUME NoneIsNoToken, TabInductive, patient' = patient, NEW s \in TabSlot,
         \/ \E name \in Tab!View : Tab!SwitchView(s, name)
         \/ \E tok \in Token : Tab!SubmitLogin(s, tok)
         \/ Tab!Retry(s)
  PROVE  TabInductive'
<1>0. /\ Tab!TypeOK /\ Tab!HoldsWhatWasSubmitted /\ RefusalOnItsWay /\ LoginAlone
      /\ NoneIsRefused
  BY DEF TabInductive, Tab!TabInvariant
<1>1. PICK kind \in Tab!Kind, t \in Tab!Maybe :
        /\ Tab!Start(s, kind, t)
        /\ view' \in Tab!View /\ signOut' \in BOOLEAN
        /\ token' = t /\ stored' = t /\ submitted' \in Tab!Maybe /\ t \in {None, submitted'}
        /\ view' \in Tab!Listing \cup {"newdoc"} => kind \in Tab!Listing
        /\ kind = "login" /\ patient => view' = "login" /\ \A r \in TabSlot : fetched[r] = None
  <2>1. ASSUME NEW name \in Tab!View, Tab!SwitchView(s, name)
        PROVE  /\ Tab!Start(s, name, token) /\ name \in Tab!Kind /\ token \in Tab!Maybe
               /\ view' \in Tab!View /\ signOut' \in BOOLEAN
               /\ token' = token /\ stored' = token /\ submitted' \in Tab!Maybe
               /\ token \in {None, submitted'}
               /\ view' \in Tab!Listing \cup {"newdoc"} => name \in Tab!Listing
               /\ name # "login"
    <3>1. /\ name \in Tab!Listing \cup {"publish"} /\ Tab!Start(s, name, token) /\ view' = name
          /\ UNCHANGED <<token, stored, signOut, submitted>>
      BY <2>1 DEF Tab!SwitchView
    <3>2. name \in Tab!Kind /\ name # "login" /\ name # "newdoc"
      BY <3>1 DEF Tab!Kind, Tab!Listing
    <3> QED BY <1>0, <3>1, <3>2 DEF Tab!TypeOK, Tab!HoldsWhatWasSubmitted
  <2>2. ASSUME NEW tok \in Token, Tab!SubmitLogin(s, tok)
        PROVE  /\ Tab!Start(s, "login", tok) /\ "login" \in Tab!Kind /\ tok \in Tab!Maybe
               /\ view' \in Tab!View /\ signOut' \in BOOLEAN
               /\ token' = tok /\ stored' = tok /\ submitted' \in Tab!Maybe
               /\ tok \in {None, submitted'}
               /\ view' \notin Tab!Listing \cup {"newdoc"}
               /\ patient => view' = "login" /\ \A r \in TabSlot : fetched[r] = None
    <3>1. /\ view = "login" /\ (patient => Tab!Quiet) /\ Tab!Start(s, "login", tok)
          /\ token' = tok /\ stored' = tok /\ submitted' = tok
          /\ UNCHANGED <<view, signOut>>
      BY <2>2 DEF Tab!SubmitLogin
    <3>2. "login" \in Tab!Kind /\ tok \in Tab!Maybe
          /\ "login" \notin Tab!Listing \cup {"newdoc"}
      BY DEF Tab!Kind, Tab!Listing, Tab!Maybe
    <3> QED BY <1>0, <3>1, <3>2 DEF Tab!TypeOK, Tab!Quiet
  <2>3. ASSUME Tab!Retry(s)
        PROVE  /\ Tab!Start(s, "boot", token) /\ "boot" \in Tab!Kind /\ token \in Tab!Maybe
               /\ view' \in Tab!View /\ signOut' \in BOOLEAN
               /\ token' = token /\ stored' = token /\ submitted' \in Tab!Maybe
               /\ token \in {None, submitted'}
               /\ view' \notin Tab!Listing \cup {"newdoc"}
    <3>1. /\ view = "error" /\ Tab!Start(s, "boot", token)
          /\ UNCHANGED <<token, stored, view, signOut, submitted>>
      BY <2>3 DEF Tab!Retry, Tab!page
    <3>2. "boot" \in Tab!Kind /\ "error" \notin Tab!Listing \cup {"newdoc"}
      BY DEF Tab!Kind, Tab!Listing
    <3> QED BY <1>0, <3>1, <3>2 DEF Tab!TypeOK, Tab!HoldsWhatWasSubmitted
  <2>4. CASE \E name \in Tab!View : Tab!SwitchView(s, name)
    <3>1. PICK name \in Tab!View : Tab!SwitchView(s, name)
      BY <2>4
    <3> QED BY <2>1, <3>1
  <2>5. CASE \E tok \in Token : Tab!SubmitLogin(s, tok)
    <3>1. PICK tok \in Token : Tab!SubmitLogin(s, tok)
      BY <2>5
    <3> QED BY <2>2, <3>1
  <2>6. CASE Tab!Retry(s)
    BY <2>3, <2>6
  <2> QED BY <2>4, <2>5, <2>6
<1>2. /\ fetched' \in [TabSlot -> Tab!Request \cup {None}]
      /\ fetched'[s] # None /\ fetched'[s].kind = kind /\ fetched'[s].token = t
      /\ fetched'[s].status = 0 /\ ~fetched'[s].newer
      /\ \A r \in TabSlot \ {s} :
           /\ fetched'[r] = None <=> fetched[r] = None
           /\ fetched[r] # None => /\ fetched'[r].kind = fetched[r].kind
                                   /\ fetched'[r].token = fetched[r].token
                                   /\ fetched'[r].status = fetched[r].status
  BY <1>0, <1>1, Started
<1>3. valid' = valid /\ Tab!Acts
  BY <1>1 DEF Tab!Start
<1>4. Tab!TypeOK'
  BY <1>0, <1>1, <1>2, <1>3 DEF Tab!TypeOK
<1>5. Tab!HoldsWhatWasSubmitted'
  BY <1>1 DEF Tab!HoldsWhatWasSubmitted
<1>6. RefusalOnItsWay'
  BY <1>1, <1>2 DEF RefusalOnItsWay
<1>7. LoginAlone'
  <2> SUFFICES ASSUME patient, NEW r \in TabSlot, fetched'[r] # None, fetched'[r].kind = "login"
               PROVE  view' = "login" /\ \A q \in TabSlot \ {r} : fetched'[q] = None
    BY DEF LoginAlone
  <2>1. \A q \in TabSlot : fetched[q] # None => fetched[q].kind # "login"
    BY <1>3, NoLoginYet
  <2>2. r = s
    BY <1>2, <2>1
  <2>3. view' = "login" /\ \A q \in TabSlot : fetched[q] = None
    BY <1>1, <1>2, <2>2
  <2> QED BY <1>2, <2>2, <2>3
<1>8. NoneIsRefused'
  BY <1>0, <1>2, <1>3 DEF NoneIsRefused
<1>9. Tab!ListsHoldAToken'
  BY <1>6 DEF RefusalOnItsWay, Tab!ListsHoldAToken, Tab!Quiet
<1> QED BY <1>4, <1>5, <1>6, <1>7, <1>8, <1>9 DEF TabInductive, Tab!TabInvariant

(* A new document and its Cancel, signing out, and a page that is loaded
   again. *)
LEMMA ViewsKeep ==
  ASSUME NoneIsNoToken, TabInductive, patient' = patient,
         \/ Tab!OpenNew \/ Tab!CancelNew \/ Tab!Logout \/ \E s \in TabSlot : Tab!Reload(s)
  PROVE  TabInductive'
<1>0. /\ Tab!TypeOK /\ Tab!HoldsWhatWasSubmitted /\ RefusalOnItsWay /\ LoginAlone
      /\ NoneIsRefused
  BY DEF TabInductive, Tab!TabInvariant
<1>1. valid' = valid /\ Tab!Acts
  BY DEF Tab!OpenNew, Tab!CancelNew, Tab!Logout, Tab!Reload
<1>2. CASE Tab!OpenNew \/ Tab!CancelNew \/ Tab!Logout
  <2>1. /\ fetched' = fetched /\ view' \in Tab!View /\ signOut' = signOut
        /\ \/ /\ UNCHANGED <<token, stored, submitted>> /\ view \in Tab!Listing \cup {"newdoc"}
           \/ /\ token' = None /\ stored' = None /\ submitted' = None
              /\ view' \notin Tab!Listing \cup {"newdoc"}
    BY <1>2 DEF Tab!OpenNew, Tab!CancelNew, Tab!Logout, Tab!View, Tab!Listing
  <2>2. Tab!TypeOK' /\ Tab!HoldsWhatWasSubmitted'
    BY <1>0, <1>1, <2>1 DEF Tab!TypeOK, Tab!HoldsWhatWasSubmitted, Tab!Maybe
  <2>3. RefusalOnItsWay'
    BY <1>0, <1>1, <2>1 DEF RefusalOnItsWay
  <2>4. LoginAlone' /\ NoneIsRefused'
    BY <1>0, <1>1, <2>1, NoLoginYet DEF LoginAlone, NoneIsRefused
  <2>5. Tab!ListsHoldAToken'
    BY <2>3 DEF RefusalOnItsWay, Tab!ListsHoldAToken, Tab!Quiet
  <2> QED BY <2>2, <2>3, <2>4, <2>5 DEF TabInductive, Tab!TabInvariant
<1>3. ASSUME NEW s \in TabSlot, Tab!Reload(s) PROVE TabInductive'
  <2>1. /\ token' = stored /\ stored' = stored /\ submitted' = submitted
        /\ view' = "none" /\ signOut' = FALSE
    BY <1>3 DEF Tab!Reload
  <2>2. PICK c \in Tab!Request :
          /\ fetched' = [r \in TabSlot |-> IF r = s THEN c ELSE None]
          /\ c.kind = "boot" /\ c.status = 0
    <3>1. /\ Tab!Fetch("boot", stored) \in Tab!Request
          /\ Tab!Fetch("boot", stored).kind = "boot" /\ Tab!Fetch("boot", stored).status = 0
      BY <1>0, FetchFacts DEF Tab!Kind, Tab!TypeOK
    <3> QED BY <1>3, <3>1 DEF Tab!Reload
  <2>3. view' \in Tab!View /\ view' \notin Tab!Listing \cup {"newdoc"}
    BY <2>1 DEF Tab!View, Tab!Listing
  <2>4. Tab!TypeOK' /\ Tab!HoldsWhatWasSubmitted'
    BY <1>0, <1>1, <2>1, <2>2, <2>3 DEF Tab!TypeOK, Tab!HoldsWhatWasSubmitted
  <2>5. RefusalOnItsWay' /\ Tab!ListsHoldAToken'
    BY <2>3 DEF RefusalOnItsWay, Tab!ListsHoldAToken
  <2>6. LoginAlone' /\ NoneIsRefused'
    BY <2>2 DEF LoginAlone, NoneIsRefused
  <2> QED BY <2>4, <2>5, <2>6 DEF TabInductive, Tab!TabInvariant
<1> QED BY <1>2, <1>3

(* The server answers, or is started with another token. *)
LEMMA ServerKeeps ==
  ASSUME NoneIsNoToken, TabInductive, patient' = patient,
         \/ \E tok \in Token : Tab!Restart(tok)
         \/ \E s \in TabSlot, status \in {200, 401, 500} : Tab!Serve(s, status)
  PROVE  TabInductive'
<1>0. /\ Tab!TypeOK /\ Tab!HoldsWhatWasSubmitted /\ RefusalOnItsWay /\ LoginAlone
      /\ NoneIsRefused
  BY DEF TabInductive, Tab!TabInvariant
<1>1. ASSUME NEW tok \in Token, Tab!Restart(tok) PROVE TabInductive'
  <2>1. /\ UNCHANGED <<token, stored, view, signOut, fetched, submitted>>
        /\ valid # None /\ valid' = tok
    BY <1>1 DEF Tab!Restart, Tab!page
  <2>2. Tab!TypeOK' /\ Tab!HoldsWhatWasSubmitted'
    BY <1>0, <2>1 DEF Tab!TypeOK, Tab!HoldsWhatWasSubmitted, Tab!Maybe
  <2>3. RefusalOnItsWay' /\ LoginAlone' /\ NoneIsRefused'
    BY <1>0, <2>1 DEF RefusalOnItsWay, LoginAlone, NoneIsRefused
  <2>4. Tab!ListsHoldAToken'
    BY <2>3 DEF RefusalOnItsWay, Tab!ListsHoldAToken, Tab!Quiet
  <2> QED BY <2>2, <2>3, <2>4 DEF TabInductive, Tab!TabInvariant
<1>2. ASSUME NEW s \in TabSlot, NEW status \in {200, 401, 500}, Tab!Serve(s, status)
      PROVE  TabInductive'
  <2>1. /\ UNCHANGED <<valid, token, stored, view, signOut, submitted>>
        /\ fetched[s] # None /\ fetched[s] \in Tab!Request
        /\ status = 200 => valid \in {None, fetched[s].token}
    BY <1>0, <1>2 DEF Tab!Serve, Tab!page, Tab!TypeOK
  <2>2. PICK d \in Tab!Request, c \in Tab!Request :
          /\ d = fetched[s] /\ fetched' = [fetched EXCEPT ![s] = c]
          /\ c.kind = d.kind /\ c.token = d.token /\ c.newer = d.newer /\ c.status = status
    <3>1. PICK d \in Tab!Request : d = fetched[s]
      BY <2>1
    <3> DEFINE c == [d EXCEPT !.status = status]
    <3>2. /\ c \in Tab!Request /\ c.kind = d.kind /\ c.token = d.token /\ c.newer = d.newer
          /\ c.status = status
      BY DEF Tab!Request
    <3>3. fetched' = [fetched EXCEPT ![s] = [fetched[s] EXCEPT !.status = status]]
      BY <1>2 DEF Tab!Serve
    <3>4. fetched' = [fetched EXCEPT ![s] = c]
      BY <3>1, <3>3
    <3> HIDE DEF c
    <3> QED BY <3>1, <3>2, <3>4
  <2>3. /\ fetched'[s] = c /\ c # None
        /\ \A r \in TabSlot \ {s} : fetched'[r] = fetched[r]
    BY <1>0, <2>2 DEF Tab!TypeOK, NoneIsNoToken
  <2>4. Tab!TypeOK' /\ Tab!HoldsWhatWasSubmitted'
    <3>1. fetched' \in [TabSlot -> Tab!Request \cup {None}]
      BY <1>0, <2>2 DEF Tab!TypeOK
    <3> QED BY <1>0, <2>1, <3>1 DEF Tab!TypeOK, Tab!HoldsWhatWasSubmitted
  <2>5. RefusalOnItsWay'
    BY <1>0, <2>1, <2>2, <2>3 DEF RefusalOnItsWay
  <2>6. LoginAlone'
    BY <1>0, <2>1, <2>2, <2>3 DEF LoginAlone
  <2>7. NoneIsRefused'
    BY <1>0, <2>1, <2>2, <2>3 DEF NoneIsRefused
  <2>8. Tab!ListsHoldAToken'
    BY <2>5 DEF RefusalOnItsWay, Tab!ListsHoldAToken, Tab!Quiet
  <2> QED BY <2>4, <2>5, <2>6, <2>7, <2>8 DEF TabInductive, Tab!TabInvariant
<1> QED BY <1>1, <1>2

LEMMA TabAlways == ASSUME NoneIsNoToken PROVE Tab!Spec => []TabInductive
<1>1. Tab!Init => TabInductive
  BY TabInit
<1>2. TabInductive /\ [Tab!Next]_(Tab!vars) => TabInductive'
  <2> SUFFICES ASSUME TabInductive, [Tab!Next]_(Tab!vars) PROVE TabInductive'
    OBVIOUS
  <2>1. CASE Tab!Next
    BY <2>1, AnswersKeep, StartsKeep, ViewsKeep, ServerKeeps DEF Tab!Next
  <2>2. CASE UNCHANGED Tab!vars
    BY <2>2 DEF Tab!vars, Tab!page, TabInductive, Tab!TabInvariant, RefusalOnItsWay,
       LoginAlone, NoneIsRefused, Tab!TypeOK, Tab!HoldsWhatWasSubmitted,
       Tab!ListsHoldAToken, Tab!Quiet
  <2> QED BY <2>1, <2>2
<1> QED BY <1>1, <1>2, PTL DEF Tab!Spec

(* Signing out stands, whatever answers late; and an operator who waits for his
   login sees no list without a token once all is answered (boot, submitLogin,
   logout and apiFetch of app.js). *)
THEOREM SigningOutStands == ASSUME NoneIsNoToken PROVE Tab!Spec => []TabInvariant
<1>1. TabInductive => TabInvariant
  BY DEF TabInductive, TabInvariant
<1> QED BY <1>1, TabAlways, PTL

(* The error view is never painted because a token was refused (the comment of
   apiFetch on overlapping 401s). *)
THEOREM RefusedTokenIsNoFailure ==
  ASSUME NoneIsNoToken PROVE Tab!Spec => RefusalIsNotFailure
<1> DEFINE Told == view # "error" /\ view' = "error" =>
             \E s \in TabSlot : /\ fetched[s] # None /\ fetched'[s] = None
                                /\ \/ fetched[s].status = 500
                                   \/ fetched[s].status = 401 /\ fetched[s].token = None
<1>1. TabInductive /\ [Tab!Next]_(Tab!vars) => [Told]_(Tab!vars)
  <2> SUFFICES ASSUME TabInductive, Tab!Next, view # "error", view' = "error"
               PROVE  \E s \in TabSlot : /\ fetched[s] # None /\ fetched'[s] = None
                                         /\ \/ fetched[s].status = 500
                                            \/ /\ fetched[s].status = 401
                                               /\ fetched[s].token = None
    OBVIOUS
  <2>0. Tab!TypeOK
    BY DEF TabInductive, Tab!TabInvariant
  <2>1. PICK s \in TabSlot : Tab!BootArrives(s) \/ Tab!ListingArrives(s)
    BY DEF Tab!Next, Tab!OpenNew, Tab!CancelNew, Tab!Logout, Tab!Restart, Tab!SwitchView,
           Tab!SubmitLogin, Tab!Serve, Tab!Retry, Tab!Reload, Tab!Refused, Tab!LoginArrives,
           Tab!PublishArrives, Tab!page, Tab!Listing
  <2>2. /\ fetched[s] # None /\ fetched[s].status \in {200, 401, 500}
        /\ fetched[s].token \in Tab!Maybe
    BY <2>0, <2>1 DEF Tab!BootArrives, Tab!ListingArrives, Tab!Arrives, Tab!TypeOK,
                      Tab!Request
  <2>3. CASE Tab!BootArrives(s)
    <3>1. fetched[s].status = 500 /\ fetched' = [fetched EXCEPT ![s] = None]
      BY <2>3 DEF Tab!BootArrives, Tab!Ends
    <3> QED BY <2>0, <2>2, <3>1 DEF Tab!TypeOK
  <2>4. CASE Tab!ListingArrives(s)
    <3>1. /\ fetched[s].kind \in Tab!Listing /\ ~Tab!AuthFailure(s) /\ fetched[s].status # 200
          /\ fetched' = [fetched EXCEPT ![s] = None]
      BY <2>4 DEF Tab!ListingArrives, Tab!Arrives, Tab!Ends
    <3>2. fetched[s].status = 401 => fetched[s].token = None
      BY <3>1 DEF Tab!AuthFailure, Tab!Listing
    <3> QED BY <2>0, <2>2, <3>1, <3>2 DEF Tab!TypeOK
  <2> QED BY <2>1, <2>3, <2>4
<1> QED BY <1>1, TabAlways, PTL DEF Tab!Spec, RefusalIsNotFailure, Tab!RefusalIsNotFailure
=============================================================================
