------------------------------ MODULE DemoApp ------------------------------
(***************************************************************************)
(* The page of the demo (apps/demo/src/App.tsx with api.ts) against the    *)
(* routes of the backend it calls.  Every button starts a handler of its   *)
(* own, so several may be under way; a handler waits for one answer after  *)
(* the other and calls refresh last.  A step is a click, the server doing  *)
(* what a request asks, or the code that runs when an answer is there.     *)
(* A request may fail before it has an effect, or after.  Nobody else acts *)
(* on the completions, and there is one agent.  What /discover answers,    *)
(* the index of Indexer, is not looked at.                                 *)
(***************************************************************************)
EXTENDS Integers, Sequences, FiniteSets

CONSTANTS
    Timelocks,          \* (bound) "none", "instant", "delayed"
    MaxDemos,           \* (bound) completions
    MaxClicks,          \* (bound)
    MaxInFlight         \* (bound) handlers under way

ASSUME TimelockAssumption == Timelocks \subseteq {"none", "instant", "delayed"}

VARIABLES
    page,               \* the state of App
    calls,              \* for each handler the request it waits for
    server,             \* completions and identity on the chain, and the timelock
    seen                \* observations: clicks, acknowledged requests, and whether the
                        \* newest completion overtook a handler of an older one

demoVars == <<page, calls, server, seen>>

Buttons == {"run", "challenge", "receipt", "contest", "finalize", "register"}
Handlers == Buttons \cup {"mount"}              \* useEffect calls refresh

Unchallenged == [challenge |-> "none", confirmed |-> FALSE]
NoCall == [asks |-> "nothing", id |-> 0, state |-> "idle", got |-> 0]

DemoInit ==
    /\ page = [demo |-> 0, status |-> "idle", error |-> FALSE, busy |-> {},
               lastResolve |-> "null", receiptDone |-> FALSE, contested |-> FALSE,
               identity |-> "none"]
    /\ calls = [h \in Handlers |->
                    IF h = "mount" THEN [NoCall EXCEPT !.asks = "list", !.state = "sent"]
                                   ELSE NoCall]
    /\ \E t \in Timelocks :
          server = [completions |-> << >>, identity |-> "none", timelock |-> t]
    /\ seen = [clicks |-> 0, acked |-> {}, overtaken |-> FALSE]

-----------------------------------------------------------------------------
(* What the routes do, and when the contracts behind them accept it *)

Accepts(what, id) ==
    LET c == server.completions[id]
    IN  CASE what = "run" -> Len(server.completions) < MaxDemos
          [] what = "challenge" -> c.challenge = "none"
          [] what = "resolve" -> server.timelock = "delayed" \/ c.challenge \in {"open", "contested"}
          [] what = "receipt" -> ~c.confirmed /\ c.challenge = "none"
          [] what \in {"contest", "finalize"} -> c.challenge = "open"
          [] OTHER -> TRUE

Challenged(id, as) == [server EXCEPT !.completions[id].challenge = as]

Effect(what, id) ==
    CASE what = "run" -> [server EXCEPT !.completions = Append(@, Unchallenged)]
      [] what = "challenge" -> Challenged(id, "open")
      [] what = "resolve" ->
            IF server.timelock = "delayed" THEN server ELSE Challenged(id, "upheld")
      [] what = "contest" -> Challenged(id, "contested")
      [] what = "finalize" -> Challenged(id, "upheld")
      [] what = "receipt" -> [server EXCEPT !.completions[id].confirmed = TRUE]
      [] what = "register" -> [server EXCEPT !.identity = "onChain"]
      [] OTHER -> server

(* The body of an answer.  Without a timelock a ruling comes back without the
   fields `executed' and `scheduled'. *)
Body(what) ==
    CASE what = "run" -> Len(server.completions) + 1
      [] what = "resolve" -> [none |-> "done", instant |-> "executed",
                              delayed |-> "scheduled"][server.timelock]
      [] what = "identity" -> server.identity
      [] what = "register" -> "registered"
      [] OTHER -> 0

(* An old contract has no registerAgent: the route answers as if it had worked *)
serve(h) ==
    /\ calls[h].state = "sent"
    /\ LET what == calls[h].asks
           id == calls[h].id
       IN  \/ /\ Accepts(what, id)
              /\ server' = Effect(what, id)
              /\ \E outcome \in {"ok", "failed"} :
                    calls' = [calls EXCEPT ![h].state = outcome,
                                           ![h].got = IF outcome = "ok" THEN Body(what) ELSE 0]
           \/ /\ server' = server
              /\ calls' = [calls EXCEPT ![h].state = "failed"]
           \/ /\ what = "register"
              /\ server' = server
              /\ calls' = [calls EXCEPT ![h].state = "ok", ![h].got = "simulated"]
    /\ UNCHANGED <<page, seen>>

-----------------------------------------------------------------------------
(* The buttons.  A handler keeps the demo it was clicked on. *)

Enabled(h) ==
    /\ "run" \notin page.busy
    /\ h \notin page.busy
    /\ h # "run" => page.demo # 0
    /\ h = "challenge" => page.lastResolve = "null"
    /\ h = "receipt" => ~page.receiptDone
    /\ h = "contest" => ~page.contested

InFlight == {h \in Handlers : calls[h].state # "idle"}

click(h) ==
    /\ seen.clicks < MaxClicks
    /\ Cardinality(InFlight) < MaxInFlight
    /\ calls[h].state = "idle"
    /\ Enabled(h)
    /\ page' = IF h = "register"
               THEN [page EXCEPT !.identity = "typed"]
               ELSE [page EXCEPT !.busy = @ \cup {h}, !.error = FALSE,
                                 !.status = CASE h = "run" -> "attesting"
                                              [] h = "challenge" -> "challenging"
                                              [] OTHER -> @]
    /\ calls' = [calls EXCEPT ![h] = [NoCall EXCEPT !.asks = h, !.id = page.demo, !.state = "sent"]]
    /\ seen' = [seen EXCEPT !.clicks = @ + 1]
    /\ UNCHANGED server

Answered(h, what) == calls[h].asks = what /\ calls[h].state = "ok"
Ask(h, what) == calls' = [calls EXCEPT ![h].asks = what, ![h].state = "sent", ![h].got = 0]
Ack(h, what) == seen' = [seen EXCEPT !.acked = @ \cup {<<what, calls[h].id>>}]

(* Handlers that will tell something of the completion they were clicked on *)
Telling == InFlight \cap {"challenge", "receipt", "contest"}

(* Mutant: what was shown of the last completion stays *)
FaultyRunAnswered ==
    /\ Answered("run", "run")
    /\ page' = [page EXCEPT !.demo = calls["run"].got, !.lastResolve = "null", !.status = "done"]
    /\ Ask("run", "list")
    /\ seen' = [seen EXCEPT !.overtaken = Telling # {}]
    /\ UNCHANGED server

runAnswered ==
    /\ Answered("run", "run")
    /\ page' = [page EXCEPT !.demo = calls["run"].got, !.lastResolve = "null",
                            !.receiptDone = FALSE, !.contested = FALSE, !.status = "done"]
    /\ Ask("run", "list")
    /\ seen' = [seen EXCEPT !.overtaken = Telling # {}]
    /\ UNCHANGED server

(* Mutant: the button is hidden only when the ruling is there *)
FaultyChallengeAnswered ==
    /\ Answered("challenge", "challenge")
    /\ page' = [page EXCEPT !.status = "resolving"]
    /\ Ask("challenge", "resolve")
    /\ Ack("challenge", "challenge")
    /\ UNCHANGED server

challengeAnswered ==
    /\ Answered("challenge", "challenge")
    /\ page' = [page EXCEPT !.lastResolve = "{}", !.status = "resolving"]
    /\ Ask("challenge", "resolve")
    /\ Ack("challenge", "challenge")
    /\ UNCHANGED server

resolveAnswered ==
    /\ Answered("challenge", "resolve")
    /\ page' = [page EXCEPT !.lastResolve = calls["challenge"].got]
    /\ Ask("challenge", "list")
    /\ UNCHANGED <<server, seen>>

receiptAnswered ==
    /\ Answered("receipt", "receipt")
    /\ page' = [page EXCEPT !.receiptDone = TRUE]
    /\ Ask("receipt", "list")
    /\ Ack("receipt", "receipt")
    /\ UNCHANGED server

contestAnswered ==
    /\ Answered("contest", "contest")
    /\ page' = [page EXCEPT !.contested = TRUE]
    /\ Ask("contest", "list")
    /\ Ack("contest", "contest")
    /\ UNCHANGED server

finalizeAnswered ==
    /\ Answered("finalize", "finalize")
    /\ Ask("finalize", "list")
    /\ UNCHANGED <<page, server, seen>>

Over(h) == calls' = [calls EXCEPT ![h] = NoCall]

registerAnswered ==
    /\ Answered("register", "register")
    /\ IF calls["register"].got = "simulated" THEN Over("register") ELSE Ask("register", "list")
    /\ UNCHANGED <<page, server, seen>>

(* refresh: contracts and listing together, then the identity of the agent *)
listed(h) ==
    /\ Answered(h, "list")
    /\ Ask(h, "identity")
    /\ UNCHANGED <<page, server, seen>>

(* A failing identity is ignored.  The handler is done. *)
identified(h) ==
    /\ calls[h].asks = "identity" /\ calls[h].state \in {"ok", "failed"}
    /\ page' = [page EXCEPT
                  !.identity = IF calls[h].state = "ok" THEN calls[h].got ELSE @,
                  !.status = IF h = "challenge" THEN "challenged" ELSE @,
                  !.error = @ \/ (h = "challenge" /\ server.timelock = "delayed"),
                  !.busy = @ \ {h}]
    /\ Over(h)
    /\ UNCHANGED <<server, seen>>

(* catch and finally *)
failed(h) ==
    /\ calls[h].asks # "identity" /\ calls[h].state = "failed"
    /\ page' = [page EXCEPT !.error = TRUE, !.busy = @ \ {h},
                            !.status = IF h = "run" THEN "error" ELSE @]
    /\ Over(h)
    /\ UNCHANGED <<server, seen>>

-----------------------------------------------------------------------------
DemoNext ==
    \/ \E h \in Buttons : click(h)
    \/ \E h \in Handlers : serve(h) \/ listed(h) \/ identified(h) \/ failed(h)
    \/ runAnswered \/ challengeAnswered \/ resolveAnswered \/ receiptAnswered
    \/ contestAnswered \/ finalizeAnswered \/ registerAnswered

DemoSpec == DemoInit /\ [][DemoNext]_demoVars

-----------------------------------------------------------------------------
(* Whatever overlaps and fails, the page asks for a challenge, a receipt or a
   rebuttal of one completion no second time after the first was acknowledged:
   a second one would cost a transaction that reverts.  (App.tsx:124-199, the
   comment at 149) *)
AcknowledgedNotRepeated ==
    [][\A h \in Buttons :
        calls[h].state = "idle" /\ calls'[h].state = "sent"
            => <<h, page.demo>> \notin seen.acked]_demoVars

(* Whatever overlaps and fails, the page says of the completion it shows what is so
   on the chain: it is confirmed, contested, challenged and ruled on where the page
   says it is, and "Challenge resolved via Timelock" stands for a ruling that was made
   or, with a delay, only scheduled.  A handler keeps the completion it was clicked on;
   of one that a newer completion overtook nothing is said.
   (App.tsx:119-216, the comments at 129 and 149) *)
PageTellsTruth ==
    ~seen.overtaken /\ page.demo # 0 =>
        LET c == server.completions[page.demo]
        IN  /\ page.receiptDone => c.confirmed
            /\ page.contested => c.challenge \in {"contested", "upheld"}
            /\ page.lastResolve # "null" => c.challenge # "none"
            /\ page.lastResolve \in {"executed", "done"} => c.challenge = "upheld"
            /\ page.status = "challenged" =>
                    c.challenge = "upheld" \/ page.lastResolve = "scheduled"
=============================================================================
