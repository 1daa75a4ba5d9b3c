------------------------------ MODULE Session ------------------------------
(***************************************************************************)
(* The session of the editing surface: boot, submitLogin, logout,          *)
(* switchView, refreshBrowse and the handling of refusals in apiFetch of   *)
(* knowledge-server/ui/app.js, cut at their awaits.  The tab keeps one     *)
(* token, in memory and in its sessionStorage; every request takes the     *)
(* token of its moment, and answers arrive in any order.                   *)
(*                                                                         *)
(* The requests behind a view are reduced to what a refusal or a failure   *)
(* does to the view; the other views have modules of their own.            *)
(***************************************************************************)
EXTENDS Naturals

CONSTANTS
  Token,        \* what an operator may type
  Slot,         \* requests under way
  None          \* no token

VARIABLES
  patient,      \* the operator logs in with nothing under way, and waits
  valid,        \* the operator token of the server; None: authentication is off
  token,        \* state.token
  stored,       \* sessionStorage
  view,         \* the visible view
  signOut,      \* the Sign out button is visible
  req,          \* the requests of the running handlers
  (* history *)
  submitted     \* the token submitted last, None after signing out

page == <<token, stored, view, signOut>>
vars == <<patient, valid, page, req, submitted>>

Maybe == Token \cup {None}
Listing == {"browse", "conflicts", "fleet"}
View == Listing \cup {"none", "login", "newdoc", "publish", "error"}
Kind == Listing \cup {"boot", "login", "publish", "preview"}

(* newer: a later refresh of the fleet was started. *)
Request == [kind : Kind, token : Maybe, status : {0, 200, 401, 500}, newer : BOOLEAN]

TypeOK ==
  /\ patient \in BOOLEAN
  /\ valid \in Maybe
  /\ token \in Maybe /\ stored = token
  /\ view \in View
  /\ signOut \in BOOLEAN
  /\ req \in [Slot -> Request \cup {None}]
  /\ submitted \in Maybe

Fetch(kind, tok) == [kind |-> kind, token |-> tok, status |-> 0, newer |-> FALSE]

Init ==
  /\ patient \in BOOLEAN
  /\ valid \in Maybe
  /\ token = None /\ stored = None
  /\ view = "none" /\ signOut = FALSE
  /\ \E s \in Slot : req = [r \in Slot |-> IF r = s THEN Fetch("boot", None) ELSE None]
  /\ submitted = None

Quiet == \A s \in Slot : req[s] = None

(* A patient operator does nothing while a login is under way. *)
Acts == patient => \A s \in Slot : req[s] # None => req[s].kind # "login"

-----------------------------------------------------------------------------
(* The operator. *)

Superseded(kind) ==
  [s \in Slot |-> IF kind = "fleet" /\ req[s] # None /\ req[s].kind = "fleet"
                    THEN [req[s] EXCEPT !.newer = TRUE] ELSE req[s]]

Start(s, kind, tok) ==
  /\ Acts /\ req[s] = None
  /\ req' = [Superseded(kind) EXCEPT ![s] = Fetch(kind, tok)]
  /\ UNCHANGED valid

(* switchView: the buttons of the header are there in every view. *)
SwitchView(s, name) ==
  /\ name \in Listing \cup {"publish"}
  /\ Start(s, name, token)
  /\ view' = name
  /\ UNCHANGED <<token, stored, signOut, submitted>>

OpenNew ==
  /\ Acts /\ view = "browse"
  /\ view' = "newdoc"
  /\ UNCHANGED <<valid, token, stored, signOut, req, submitted>>

CancelNew ==
  /\ Acts /\ view = "newdoc"
  /\ view' = "browse"
  /\ UNCHANGED <<valid, token, stored, signOut, req, submitted>>

Retry(s) ==
  /\ view = "error"
  /\ Start(s, "boot", token)
  /\ UNCHANGED <<page, submitted>>

SubmitLogin(s, tok) ==
  /\ view = "login"
  /\ patient => Quiet
  /\ Start(s, "login", tok)
  /\ token' = tok /\ stored' = tok /\ submitted' = tok
  /\ UNCHANGED <<view, signOut>>

Logout ==
  /\ Acts /\ signOut
  /\ token' = None /\ stored' = None /\ submitted' = None
  /\ view' = "login"
  /\ UNCHANGED <<valid, signOut, req>>

(* The page is loaded again: what was under way is gone. *)
Reload(s) ==
  /\ Acts
  /\ token' = stored
  /\ view' = "none" /\ signOut' = FALSE
  /\ req' = [r \in Slot |-> IF r = s THEN Fetch("boot", stored) ELSE None]
  /\ UNCHANGED <<valid, stored, submitted>>

-----------------------------------------------------------------------------
(* The server, and what lies between. *)

(* The server is started again with another token in its file, and otherwise
   as before. *)
Restart(tok) ==
  /\ valid \notin {None, tok}
  /\ valid' = tok
  /\ UNCHANGED <<page, req, submitted>>

Serve(s, status) ==
  /\ req[s] # None /\ req[s].status = 0
  /\ status \in {500, IF valid \in {None, req[s].token} THEN 200 ELSE 401}
  /\ req' = [req EXCEPT ![s].status = status]
  /\ UNCHANGED <<valid, page, submitted>>

-----------------------------------------------------------------------------
(* The answers. *)

Arrives(s, kinds) ==
  /\ req[s] # None /\ req[s].status # 0 /\ req[s].kind \in kinds
  /\ UNCHANGED <<valid, submitted>>

Ends(s) == req' = [req EXCEPT ![s] = None]
Continues(s, kind) == req' = [req EXCEPT ![s] = Fetch(kind, token)]

(* Mutant: the state of now is asked whether the request carried a token. *)
AuthFailureNow(s) == req[s].status = 401 /\ token # None /\ req[s].kind \notin {"boot", "login"}

(* apiFetch: a token was refused, on a request that is not a probe. *)
AuthFailure(s) ==
  /\ req[s].status = 401
  /\ req[s].token # None
  /\ req[s].kind \notin {"boot", "login"}

(* clearStoredCredentials *)
Cleared == token' = None /\ stored' = None

(* Mutant: the credentials go and the view stays. *)
RefusedInPlace(s) ==
  /\ Arrives(s, Kind) /\ AuthFailure(s)
  /\ Cleared
  /\ Ends(s)
  /\ UNCHANGED <<view, signOut>>

Refused(s) ==
  /\ Arrives(s, Kind) /\ AuthFailure(s)
  /\ Cleared
  /\ view' = "login"
  /\ Ends(s)
  /\ UNCHANGED signOut

BootArrives(s) ==
  /\ Arrives(s, {"boot"})
  /\ UNCHANGED signOut
  /\ \/ /\ req[s].status = 200
        /\ view' = "browse" /\ Continues(s, "browse")
        /\ UNCHANGED <<token, stored>>
     \/ /\ req[s].status = 401
        /\ Cleared /\ view' = "login" /\ Ends(s)
     \/ /\ req[s].status = 500
        /\ view' = "error" /\ Ends(s)
        /\ UNCHANGED <<token, stored>>

LoginArrives(s) ==
  /\ Arrives(s, {"login"})
  /\ UNCHANGED signOut
  /\ \/ /\ req[s].status = 200
        /\ view' = "browse" /\ Continues(s, "browse")
        /\ UNCHANGED <<token, stored>>
     \/ /\ req[s].status = 401
        /\ Cleared /\ Ends(s) /\ UNCHANGED view
     \/ /\ req[s].status = 500
        /\ Ends(s) /\ UNCHANGED <<token, stored, view>>

(* refreshBrowse, refreshConflicts and refreshFleet, which drops an answer
   that a later refresh has made stale. *)
ListingArrives(s) ==
  /\ Arrives(s, Listing) /\ ~AuthFailure(s)
  /\ Ends(s)
  /\ view' = IF req[s].status = 200 \/ req[s].newer THEN view ELSE "error"
  /\ signOut' = (signOut \/ (req[s].kind = "browse" /\ req[s].status = 200))
  /\ UNCHANGED <<token, stored>>

(* refreshPublish tells a failure in its own panes. *)
PublishArrives(s) ==
  /\ Arrives(s, {"publish", "preview"}) /\ ~AuthFailure(s)
  /\ IF req[s].kind = "publish" THEN Continues(s, "preview") ELSE Ends(s)
  /\ UNCHANGED page

-----------------------------------------------------------------------------
Next ==
  /\ UNCHANGED patient
  /\ \/ OpenNew \/ CancelNew \/ Logout
     \/ \E tok \in Token : Restart(tok)
     \/ \E s \in Slot :
          \/ \E name \in View : SwitchView(s, name)
          \/ \E tok \in Token : SubmitLogin(s, tok)
          \/ \E status \in {200, 401, 500} : Serve(s, status)
          \/ Retry(s) \/ Reload(s) \/ Refused(s) \/ BootArrives(s)
          \/ LoginArrives(s) \/ ListingArrives(s) \/ PublishArrives(s)

Spec == Init /\ [][Next]_vars

-----------------------------------------------------------------------------
(* What must hold. *)

(* "The second of two overlapping 401s" must not "let a caller paint the
   error view over the login view" (the comment of apiFetch): the error view
   is shown for a failure, or for a request that carried no token, never
   because a token was refused. *)
RefusalIsNotFailure ==
  [][view # "error" /\ view' = "error" =>
       \E s \in Slot : /\ req[s] # None /\ req'[s] = None
                       /\ \/ req[s].status = 500
                          \/ req[s].status = 401 /\ req[s].token = None]_vars

(* Signing out stands: the tab holds a token, in memory and in its storage,
   only if it is the one submitted last and nobody has signed out since,
   whatever probe answers late and however often the page is loaded again. *)
HoldsWhatWasSubmitted == token \in {None, submitted}

(* Once everything has been answered, an operator who is patient with the
   login, and with nothing else, and who sees a list holds the token it took:
   refused, he was sent to the login view. *)
ListsHoldAToken ==
  (patient /\ Quiet /\ valid # None /\ view \in Listing \cup {"newdoc"}) => token # None

(* What every state of a tab satisfies: signing out stands (submitLogin, boot,
   logout), and no patient operator is left before a list without his token
   (apiFetch). *)
TabInvariant == TypeOK /\ HoldsWhatWasSubmitted /\ ListsHoldAToken
=============================================================================
