------------------------------ MODULE Startup ------------------------------
(***************************************************************************)
(* The start of the server: main and checkListenAddr of                    *)
(* knowledge-server/main.go, and the operator token file of                *)
(* knowledge-server/auth.go, for processes started with any flags, again   *)
(* and again and at the same time, as a service manager does.  A process   *)
(* may be killed, and its disk may be full, at every step.                 *)
(***************************************************************************)
EXTENDS Naturals

CONSTANTS
  Proc,         \* server processes, none of them running or some
  None,         \* no file, no token
  MaxToken,     \* bound: tokens drawn or supplied
  MaxStart      \* bound: starts

VARIABLES
  file,         \* the operator token file
  drawn,        \* tokens so far
  starts,
  pc,           \* "down", "bootstrap", "write", "load", "gate" or "serving"
  conf,         \* the flags of each process
  auth,         \* the token whose digest it holds, None for no authentication
  (* history *)
  reported      \* the token a start has said to be in the file, as long as no
                \* person has touched the file

proc == <<pc, conf, auth>>
vars == <<file, drawn, starts, proc, reported>>

(* The flags; listen is the kind of host in the address. *)
Conf == [tokenFile : BOOLEAN, init : BOOLEAN, cert : BOOLEAN, key : BOOLEAN,
         insecure : BOOLEAN, listen : {"loopback", "empty", "other", "invalid"}]

(* How much of a token there is: nothing, too little, enough, all of it. *)
Size == {"empty", "short", "enough", "whole"}
Content == [token : 0..MaxToken, size : Size]

TypeOK ==
  /\ file \in Content \cup {None}
  /\ drawn \in 0..MaxToken /\ starts \in 0..MaxStart
  /\ pc \in [Proc -> {"down", "bootstrap", "write", "load", "gate", "serving"}]
  /\ conf \in [Proc -> Conf]
  /\ auth \in [Proc -> Content \cup {None}]
  /\ reported \in Content \cup {None}
  /\ \A p \in Proc : /\ conf[p].cert = conf[p].key
                     /\ conf[p].init => conf[p].tokenFile
                     /\ pc[p] = "down" => auth[p] = None

Unset == [tokenFile |-> FALSE, init |-> FALSE, cert |-> FALSE, key |-> FALSE,
          insecure |-> FALSE, listen |-> "loopback"]

Init ==
  /\ file = None /\ drawn = 0 /\ starts = 0
  /\ pc = [p \in Proc |-> "down"]
  /\ conf = [p \in Proc |-> Unset]
  /\ auth = [p \in Proc |-> None]
  /\ reported = None

-----------------------------------------------------------------------------
(* Supplying a token, or removing one. *)

Supply(size) ==
  /\ drawn < MaxToken
  /\ drawn' = drawn + 1
  /\ file' = [token |-> drawn + 1, size |-> size]
  /\ reported' = None
  /\ UNCHANGED <<starts, proc>>

Remove ==
  /\ file # None
  /\ file' = None /\ reported' = None
  /\ UNCHANGED <<drawn, starts, proc>>

-----------------------------------------------------------------------------
(* main *)

Goes(p, step) == pc' = [pc EXCEPT ![p] = step]

(* The process ends, by log.Fatal or otherwise. *)
Ends(p) ==
  /\ Goes(p, "down")
  /\ conf' = [conf EXCEPT ![p] = Unset]
  /\ auth' = [auth EXCEPT ![p] = None]

Stop(p) ==
  /\ pc[p] # "down"
  /\ Ends(p)
  /\ UNCHANGED <<file, drawn, starts, reported>>

(* The flags that contradict each other are refused. *)
Start(p, c) ==
  /\ pc[p] = "down" /\ starts < MaxStart
  /\ starts' = starts + 1
  /\ c.cert = c.key /\ (c.init => c.tokenFile)
  /\ Goes(p, IF c.tokenFile THEN "bootstrap" ELSE "gate")
  /\ conf' = [conf EXCEPT ![p] = c]
  /\ UNCHANGED <<file, drawn, auth, reported>>

(* Mutant: a file that exists is created again. *)
CreateAgain(p) ==
  /\ pc[p] = "bootstrap" /\ conf[p].init /\ drawn < MaxToken
  /\ drawn' = drawn + 1
  /\ file' = [token |-> drawn + 1, size |-> "empty"]
  /\ auth' = [auth EXCEPT ![p] = [token |-> drawn + 1, size |-> "whole"]]
  /\ Goes(p, "write")
  /\ UNCHANGED <<starts, conf, reported>>

(* initOperatorToken draws a token and creates the file, if there is none. *)
Create(p) ==
  /\ pc[p] = "bootstrap" /\ conf[p].init /\ file = None /\ drawn < MaxToken
  /\ drawn' = drawn + 1
  /\ file' = [token |-> drawn + 1, size |-> "empty"]
  /\ auth' = [auth EXCEPT ![p] = [token |-> drawn + 1, size |-> "whole"]]
  /\ Goes(p, "write")
  /\ UNCHANGED <<starts, conf, reported>>

(* It fills the file it created, as far as it gets; if somebody has removed
   or replaced it since, what it writes is not seen. *)
Write(p) ==
  /\ pc[p] = "write"
  /\ \E size \in Size :
       /\ IF size = "whole" THEN Goes(p, "load") /\ UNCHANGED <<conf, auth>> ELSE Ends(p)
       /\ file' = IF file # None /\ file.token = auth[p].token
                    THEN [file EXCEPT !.size = size] ELSE file
  /\ UNCHANGED <<drawn, starts, reported>>

(* os.Stat without -init-operator-token; with it, O_EXCL. *)
Found(p) ==
  /\ pc[p] = "bootstrap"
  /\ conf[p].init <=> file # None
  /\ Ends(p)
  /\ UNCHANGED <<file, drawn, starts, reported>>

Stat(p) ==
  /\ pc[p] = "bootstrap" /\ ~conf[p].init /\ file # None
  /\ Goes(p, "load")
  /\ UNCHANGED <<file, drawn, starts, conf, auth, reported>>

(* loadOperatorToken: 32 characters at least. *)
Acceptable(content) == content # None /\ content.size \in {"enough", "whole"}

(* A start that was to provide a token has done so, and ends. *)
Load(p) ==
  /\ pc[p] = "load"
  /\ IF Acceptable(file) /\ ~conf[p].init
       THEN /\ Goes(p, "gate")
            /\ auth' = [auth EXCEPT ![p] = file]
            /\ UNCHANGED <<conf, reported>>
       ELSE /\ Ends(p)
            /\ reported' = IF Acceptable(file) THEN file ELSE reported
  /\ UNCHANGED <<file, drawn, starts>>

(* isLoopbackHost *)
Loopback(listen) == listen = "loopback"

(* checkListenAddr *)
Gate(p) ==
  LET c == conf[p]
      secured == auth[p] # None /\ c.cert
  IN  /\ pc[p] = "gate"
      /\ IF c.listen # "invalid" /\ (secured \/ c.insecure \/ Loopback(c.listen))
           THEN Goes(p, "serving") /\ UNCHANGED <<conf, auth>>
           ELSE Ends(p)
      /\ UNCHANGED <<file, drawn, starts, reported>>

-----------------------------------------------------------------------------
Step(p) ==
  Stop(p) \/ Create(p) \/ Write(p) \/ Found(p) \/ Stat(p) \/ Load(p) \/ Gate(p)

Next ==
  \/ (\E size \in Size : Supply(size)) \/ Remove
  \/ \E p \in Proc : Step(p) \/ \E c \in Conf : Start(p, c)

Spec == Init /\ [][Next]_vars

-----------------------------------------------------------------------------
(* What must hold. *)

(* "A non-loopback bind requires BOTH auth and TLS" (main), unless the
   operator overrides it: at every server that got through the start. *)
NeverExposed ==
  \A p \in Proc : pc[p] = "serving" =>
    \/ conf[p].listen = "loopback" \/ conf[p].insecure
    \/ auth[p] # None /\ conf[p].cert /\ conf[p].key

(* A server that was given a token file authenticates with a token of enough
   characters, whatever an interrupted start or a full disk left in the file;
   one that was to provide a token never serves. *)
AuthenticatesAsAsked ==
  \A p \in Proc : pc[p] = "serving" =>
    /\ ~conf[p].init
    /\ conf[p].tokenFile => auth[p] # None /\ auth[p].size \in {"enough", "whole"}

(* "Refuses to overwrite an existing file": the token a start has reported
   stays in the file until a person touches it, however often and in whatever
   order processes are started with the flag still set. *)
ReportedStands == reported # None => file = reported

(* What every state of the processes and of the token file satisfies: no server
   serves with less protection than main asks for, and a token that was
   reported stands. *)
StartInvariant == TypeOK /\ NeverExposed /\ AuthenticatesAsAsked /\ ReportedStands
=============================================================================
