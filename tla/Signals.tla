------------------------------- MODULE Signals -------------------------------
(***************************************************************************)
(* src/signal.c: the process-wide table of dispositions, and the delivery  *)
(* of a signal by raise, whose handler may itself install and raise.       *)
(***************************************************************************)
EXTENDS Integers, Sequences

CONSTANT Supported   \* the signal numbers wcrt_signal_index knows

(* What ran is kept as events: a disposition installed, a handler          *)
(* delivered, the process ended by __wcrt_signal_terminate.                *)
Process ==
  [wcrt_handlers |-> [n \in Supported |-> "SIG_DFL"], ended |-> FALSE, r |-> "none", events |-> <<>>]
Event(kind, n, handler) == [kind |-> kind, signal |-> n, handler |-> handler]

signal(p, n, handler) ==
  IF n \notin Supported \/ handler = "SIG_ERR" THEN [p EXCEPT !.r = "SIG_ERR"]
  ELSE [p EXCEPT !.r = p.wcrt_handlers[n], !.wcrt_handlers[n] = handler,
                 !.events = Append(@, Event("install", n, handler))]

wcrt_signal_terminate(p, n) == [p EXCEPT !.ended = TRUE, !.events = Append(@, Event("end", n, "SIG_DFL"))]

(* The disposition goes back to SIG_DFL before the handler runs; does[h]   *)
(* are the calls that the handler h makes.                                 *)
RECURSIVE raise(_, _, _), Run(_, _, _)
raise(p, n, does) ==
  CASE n \notin Supported -> [p EXCEPT !.r = "1"]
    [] n \in Supported /\ p.wcrt_handlers[n] = "SIG_IGN" -> [p EXCEPT !.r = "0"]
    [] n \in Supported /\ p.wcrt_handlers[n] = "SIG_DFL" -> wcrt_signal_terminate(p, n)
    [] OTHER ->
         LET handler == p.wcrt_handlers[n]
             delivered == [p EXCEPT !.wcrt_handlers[n] = "SIG_DFL",
                                    !.events = Append(@, Event("deliver", n, handler))]
         IN [Run(delivered, does[handler], does) EXCEPT !.r = "0"]
Run(p, calls, does) ==
  IF calls = <<>> \/ p.ended THEN p
  ELSE LET c == Head(calls)
       IN Run(IF c.call = "signal" THEN signal(p, c.n, c.handler) ELSE raise(p, c.n, does), Tail(calls), does)

-----------------------------------------------------------------------------
(* Each installation of a handler is delivered at most once, a disposition *)
(* that was never given or was used up ends the process, and nothing runs  *)
(* after that; a refused signal changes nothing.                           *)
LastOf(p, i) == {j \in 1..i - 1 : p.events[j].signal = p.events[i].signal /\
                   \A k \in j + 1..i - 1 : p.events[k].signal # p.events[i].signal}
SignalsDelivered(calls, does) ==
  LET p == Run(Process, calls, does)
  IN \A i \in DOMAIN p.events :
       LET e == p.events[i]
           before == {p.events[j] : j \in LastOf(p, i)}
       IN /\ e.kind = "deliver" => before = {Event("install", e.signal, e.handler)}
          /\ e.kind = "end" =>
               /\ i = Len(p.events) /\ p.ended
               /\ \A b \in before : b.kind = "deliver" \/ b.handler = "SIG_DFL"
          /\ e.signal \in Supported /\ e.handler # "SIG_ERR"
SignalAnswers(p, n, handler) ==
  LET first == signal(p, n, handler)
      second == signal(first, n, "SIG_DFL")
  IN IF n \in Supported /\ handler # "SIG_ERR"
     THEN second.r = handler /\ second.wcrt_handlers = [p.wcrt_handlers EXCEPT ![n] = "SIG_DFL"]
     ELSE first = [p EXCEPT !.r = "SIG_ERR"]
=============================================================================
