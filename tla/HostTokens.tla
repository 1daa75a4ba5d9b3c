----------------------------- MODULE HostTokens -----------------------------
(***************************************************************************)
(* Host tokens and the requests that carry them: authenticate and secure   *)
(* of knowledge-server/auth.go, the handlers of knowledge-server/api.go    *)
(* that act for a host or on its token, and the token table of             *)
(* store/store.go.  A request is authenticated by one query and served by  *)
(* another; in between tokens are rotated and revoked.  A token stands for *)
(* its digest, and every issue draws one that was never drawn before.      *)
(***************************************************************************)
EXTENDS Naturals, FiniteSets

CONSTANTS
  Host,         \* hosts
  Token,        \* tokens that can be drawn
  Operator,     \* the operator's token, and its principal
  Slot,         \* requests under way
  None          \* no value, no token, no host

ASSUME NoneAssumption == None \notin Host \cup Token \cup {Operator}
ASSUME OperatorAssumption == Operator \notin Host \cup Token

VARIABLES
  auth,         \* authentication is on (an operator token was loaded)
  host_tokens,  \* the rows of the table
  beat,         \* heartbeats: who wrote the row of a host
  flag,         \* resync_requests
  req,          \* the requests under way
  (* history *)
  told,         \* tokens that an answer has told
  owner,        \* the host a token was drawn for
  ended         \* tokens that were replaced or revoked

store == <<host_tokens, beat, flag>>
history == <<told, owner, ended>>
vars == <<auth, store, req, history>>

ForHosts == {"current", "heartbeat"}
ForOperator == {"resync", "issue", "revoke"}

Row == [host : Host, token : Token]

Request ==
  [kind : ForHosts \cup ForOperator, token : Token \cup {Operator, None},
   host : Host \cup {None},
   late : BOOLEAN,                                \* sent with an ended token
   principal : Host \cup {Operator, None},
   status : {0, 200, 201, 204, 400, 401, 403, 404, 409},
   drawn : Token \cup {None}]

TypeOK ==
  /\ auth \in BOOLEAN
  /\ host_tokens \subseteq Row
  /\ \A r, q \in host_tokens : r.host = q.host \/ r.token = q.token => r = q
  /\ beat \in [Host -> Host \cup {Operator, None}]
  /\ flag \in [Host -> BOOLEAN]
  /\ req \in [Slot -> Request \cup {None}]
  /\ told \subseteq Token /\ ended \subseteq Token
  /\ owner \in [Token -> Host \cup {None}]

Init ==
  /\ auth \in BOOLEAN
  /\ host_tokens = {}
  /\ beat = [h \in Host |-> None]
  /\ flag = [h \in Host |-> FALSE]
  /\ req = [s \in Slot |-> None]
  /\ told = {} /\ ended = {}
  /\ owner = [t \in Token |-> None]

-----------------------------------------------------------------------------
(* Clients. *)

Undrawn == {t \in Token : owner[t] = None}
Issues == {s \in Slot : req[s] # None /\ req[s].kind = "issue"}

(* The routes of an operator name a host in their path; a host may name one
   in its query or its body.  The protocol version and what a heartbeat says
   are chosen where they are read. *)
Send(s, kind, token, host) ==
  /\ req[s] = None
  /\ token \in IF auth THEN told \cup {Operator, None} ELSE {None}
  /\ kind \in ForOperator => host # None
  /\ kind = "issue" => Cardinality(Undrawn) > Cardinality(Issues)
  /\ req' = [req EXCEPT ![s] =
       [kind |-> kind, token |-> token, host |-> host, late |-> token \in ended,
        principal |-> None, status |-> 0, drawn |-> None]]
  /\ UNCHANGED <<auth, store, history>>

(* The answer arrives, or is lost with the token it told. *)
Arrive(s) ==
  /\ req[s] # None /\ req[s].status # 0
  /\ req' = [req EXCEPT ![s] = None]
  /\ told' \in {told, told \cup ({req[s].drawn} \ {None})}
  /\ UNCHANGED <<auth, store, owner, ended>>

-----------------------------------------------------------------------------
(* The server. *)

(* The answer, without what the request asked for. *)
Answer(r, status) ==
  [kind |-> "current", token |-> IF status = 401 THEN r.token ELSE None,
   host |-> None, late |-> r.late, principal |-> None, status |-> status,
   drawn |-> r.drawn]

Answers(s, status) == req' = [req EXCEPT ![s] = Answer(@, status)]

HostsFor(token) == {r.host : r \in {q \in host_tokens : q.token = token}}

(* authenticate *)
Principals(token) ==
  IF ~auth \/ token = Operator THEN {Operator} ELSE HostsFor(token)

(* secure, then subscriberProtocol, up to the handler. *)
Authenticate(s) ==
  LET r == req[s]
  IN  /\ r # None /\ r.principal = None /\ r.status = 0
      /\ \/ Principals(r.token) = {} /\ Answers(s, 401)
         \/ \E p \in Principals(r.token) :
              \/ p # Operator /\ r.kind \in ForOperator /\ Answers(s, 403)
              \/ /\ p = Operator \/ r.kind \in ForHosts
                 /\ req' = [req EXCEPT ![s].principal = p]
              \/ r.kind \in ForHosts /\ Answers(s, 409)
      /\ UNCHANGED <<auth, store, history>>

Handles(s, kind) ==
  /\ req[s] # None /\ req[s].kind = kind
  /\ req[s].principal # None /\ req[s].status = 0

(* The binding of currentRelease and heartbeat: a host speaks for itself,
   whether it says so or not. *)
Foreign(r) == r.principal # Operator /\ r.host \notin {None, r.principal}
Bound(r) == IF r.principal = Operator THEN r.host ELSE r.principal

(* ResyncPending is read, for the bound host, once there is a release. *)
ServeCurrent(s) ==
  /\ Handles(s, "current")
  /\ \/ Answers(s, 404)
     \/ Answers(s, IF Foreign(req[s]) THEN 403 ELSE 200)
  /\ UNCHANGED <<auth, store, history>>

Heartbeat(s, applied) ==
  LET r == req[s]
      h == Bound(r)
  IN  /\ Handles(s, "heartbeat")
      /\ IF Foreign(r) THEN Answers(s, 403) /\ UNCHANGED store
         ELSE IF h = None THEN Answers(s, 400) /\ UNCHANGED store
         ELSE /\ Answers(s, 204)
              /\ beat' = [beat EXCEPT ![h] = r.principal]
              /\ flag' = [flag EXCEPT ![h] = @ /\ ~applied]
              /\ UNCHANGED host_tokens
      /\ UNCHANGED <<auth, history>>

RequestResync(s) ==
  /\ Handles(s, "resync")
  /\ Answers(s, 204)
  /\ flag' = [flag EXCEPT ![req[s].host] = TRUE]
  /\ UNCHANGED <<auth, host_tokens, beat, history>>

DrawnFor(h) == {t \in Token : owner[t] = h}
RowsOf(h) == {r \in host_tokens : r.host = h}

(* What an issue of token t for host h does besides writing its row. *)
Issued(s, h, t) ==
  /\ Handles(s, "issue") /\ h = req[s].host
  /\ owner[t] = None
  /\ req' = [req EXCEPT ![s] = [Answer(@, 201) EXCEPT !.drawn = t]]
  /\ owner' = [owner EXCEPT ![t] = h]
  /\ ended' = ended \cup DrawnFor(h)
  /\ UNCHANGED <<auth, beat, flag, told>>

(* Mutant: the token of a host that has one is kept beside the new one. *)
IssueAddsRow(s, h, t) ==
  /\ Issued(s, h, t)
  /\ host_tokens' = host_tokens \cup {[host |-> h, token |-> t]}

IssueHostToken(s, h, t) ==
  /\ Issued(s, h, t)
  /\ host_tokens' = (host_tokens \ RowsOf(h)) \cup {[host |-> h, token |-> t]}

RevokeHostToken(s) ==
  LET h == req[s].host
  IN  /\ Handles(s, "revoke")
      /\ Answers(s, IF RowsOf(h) = {} THEN 404 ELSE 204)
      /\ host_tokens' = host_tokens \ RowsOf(h)
      /\ ended' = ended \cup DrawnFor(h)
      /\ UNCHANGED <<auth, beat, flag, told, owner>>

-----------------------------------------------------------------------------
Serve(s) ==
  \/ Authenticate(s) \/ ServeCurrent(s) \/ RequestResync(s)
  \/ (\E applied \in BOOLEAN : Heartbeat(s, applied))
  \/ (\E h \in Host, t \in Token : IssueHostToken(s, h, t))
  \/ RevokeHostToken(s)

Next ==
  \E s \in Slot :
    \/ Serve(s) \/ Arrive(s)
    \/ \E kind \in ForHosts \cup ForOperator, token \in Token \cup {Operator, None},
          host \in Host \cup {None} : Send(s, kind, token, host)

Spec == Init /\ [][Next]_vars

-----------------------------------------------------------------------------
(* What must hold. *)

(* "A subscriber can never speak for another host" (auth.go): with
   authentication on, the row of a host is written, and its resync request
   cleared, only by a request of the operator or with a token drawn for that
   host, whatever is rotated or revoked on the way. *)
SpeaksForItself ==
  [][auth => \A h \in Host :
       beat'[h] # beat[h] \/ (flag[h] /\ ~flag'[h]) =>
         \E s \in Slot : /\ Handles(s, "heartbeat") /\ req'[s].status = 204
                         /\ req[s].token = Operator \/ req[s].token \in DrawnFor(h)]_vars

(* "The old token stops verifying immediately" (IssueHostToken and
   RevokeHostToken): a request sent with a token after it was replaced or
   revoked gets a 401, one that overtakes another included. *)
EndedIsRefused ==
  auth => \A s \in Slot : req[s] # None /\ req[s].late => req[s].status \in {0, 401}

(* No host is locked out: a token that an answer has told is refused only
   once it was replaced or revoked. *)
ToldIsAccepted ==
  \A s \in Slot :
    req[s] # None /\ req[s].status = 401 => req[s].token \in ended \cup {None}

(* The token table tells the truth: its rows are the tokens drawn and not
   ended, each under the host it was drawn for, and nothing else is ever told
   or ended (IssueHostToken, RevokeHostToken). *)
TableIsTrue ==
  /\ \A r \in host_tokens : owner[r.token] = r.host /\ r.token \notin ended
  /\ \A t \in Token :
       owner[t] # None =>
         t \in ended \/ \E r \in host_tokens : r.token = t
  /\ \A t \in told \cup ended : owner[t] # None

(* A request is served for the one its token was drawn for, whatever becomes
   of the token, and one sent too late never gets that far (authenticate and
   secure). *)
ServedForItsOwn(r) ==
  /\ r.kind \in ForOperator => r.host # None
  /\ \A t \in {r.token, r.drawn} \cap Token : owner[t] # None
  /\ auth /\ r.principal # None =>
       \/ r.principal = Operator /\ r.token = Operator
       \/ r.token \in DrawnFor(r.principal)
  /\ auth /\ r.late => r.principal = None /\ (r.status = 0 => r.token \in ended)

RequestsAreOwned == \A s \in Slot : req[s] # None => ServedForItsOwn(req[s])

(* What every state of the token table and of the requests satisfies: a token
   is accepted from the moment it is told until it is replaced or revoked, and
   not after (authenticate, IssueHostToken, RevokeHostToken). *)
TokenInvariant ==
  TypeOK /\ TableIsTrue /\ RequestsAreOwned /\ EndedIsRefused /\ ToldIsAccepted
=============================================================================
