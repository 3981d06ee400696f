--------------------------- MODULE FloatEnvironment --------------------------
(***************************************************************************)
(* The floating environment of src/fenv.c on x86 and x64.  A processor has *)
(* two units that compute, x87 and SSE, each with its raised exceptions,   *)
(* its rounding direction, its unmasked exceptions (traps) and the rest of *)
(* its control register.  x64 keeps both in step; x86 has only the first.  *)
(***************************************************************************)
EXTENDS Integers, Sequences

CONSTANTS
  FE_ALL_EXCEPT,  \* the exceptions of the interface; "denormal" is none of them
  X64             \* TRUE where __x86_64__ is defined

Rounds == {"nearest", "downward", "upward", "zero"}
AllTraps == FE_ALL_EXCEPT \cup {"denormal"}
Unit(flags, round, traps, rest) == [flags |-> flags, round |-> round, traps |-> traps, rest |-> rest]
(* 0x027f and 0x1f80.                                                      *)
DefaultUnit == Unit({}, "nearest", {}, "default")
(* A register of SSE that holds 0; bit 6 of an x87 control word is 1.      *)
IsZero(sse) == sse = Unit({}, "nearest", AllTraps, "default")

wcrt_native_flags(f) == (f.x87.flags \cup IF X64 THEN f.sse.flags ELSE {}) \cap FE_ALL_EXCEPT
Written(flags, mask, unit) == [unit EXCEPT !.flags = (@ \ mask) \cup (flags \cap mask)]
wcrt_write_flags(f, flags, mask) ==
  [x87 |-> Written(flags, mask, f.x87), sse |-> IF X64 THEN Written(flags, mask, f.sse) ELSE f.sse]
wcrt_native_round(f) == IF X64 THEN f.sse.round ELSE f.x87.round
wcrt_write_round(f, round) ==
  [x87 |-> [f.x87 EXCEPT !.round = round], sse |-> IF X64 THEN [f.sse EXCEPT !.round = round] ELSE f.sse]
wcrt_mask_traps(f) ==
  [x87 |-> [f.x87 EXCEPT !.traps = {}], sse |-> IF X64 THEN [f.sse EXCEPT !.traps = {}] ELSE f.sse]

(* A saved environment; the x87 status is kept as the flags alone.         *)
wcrt_capture(f) ==
  [control |-> wcrt_native_round(f), status |-> wcrt_native_flags(f), x87 |-> f.x87, sse |-> f.sse]
wcrt_install(f, e) ==
  LET sse == IF IsZero(e.sse) THEN DefaultUnit ELSE e.sse
      restored ==
        [x87 |-> [e.x87 EXCEPT !.flags = f.x87.flags, !.round = e.control],
         sse |-> IF X64 THEN [sse EXCEPT !.flags = (@ \ FE_ALL_EXCEPT) \cup e.status, !.round = e.control] ELSE f.sse]
  IN wcrt_write_flags(restored, e.status, FE_ALL_EXCEPT)
wcrt_install_default(f) ==
  wcrt_install(f, [control |-> "nearest", status |-> {}, x87 |-> DefaultUnit, sse |-> DefaultUnit])

-----------------------------------------------------------------------------
(* p is what the program sees: the processor f, the environment env and    *)
(* the flags it last saved, and the result r of its last call.  A pointer  *)
(* to an environment is null, FE_DFL_ENV or leads to env.                  *)
Program(f) == [f |-> f, env |-> wcrt_capture(f), flagp |-> {}, r |-> 0]
Mask(excepts) == excepts \cap FE_ALL_EXCEPT
Ends(p, f) == [p EXCEPT !.f = f, !.r = 0]
Fails(p) == [p EXCEPT !.r = 1]

feclearexcept(p, excepts) == Ends(p, wcrt_write_flags(p.f, {}, Mask(excepts)))
fegetexceptflag(p, excepts) == [p EXCEPT !.flagp = wcrt_native_flags(p.f) \cap Mask(excepts), !.r = 0]
Raised(f, excepts) == wcrt_write_flags(f, wcrt_native_flags(f) \cup Mask(excepts), Mask(excepts))
feraiseexcept(p, excepts) == Ends(p, Raised(p.f, excepts))
fesetexceptflag(p, excepts) == Ends(p, wcrt_write_flags(p.f, p.flagp, Mask(excepts)))
fetestexcept(p, excepts) == [p EXCEPT !.r = wcrt_native_flags(p.f) \cap Mask(excepts)]
fesetround(p, round) == IF round \notin Rounds THEN Fails(p) ELSE Ends(p, wcrt_write_round(p.f, round))
fegetenv(p) == [p EXCEPT !.env = wcrt_capture(p.f), !.r = 0]
feholdexcept(p) ==
  Ends([p EXCEPT !.env = wcrt_capture(p.f)], wcrt_mask_traps(wcrt_write_flags(p.f, {}, FE_ALL_EXCEPT)))
fesetenv(p, envp) ==
  CASE envp = "FE_DFL_ENV" -> Ends(p, wcrt_install_default(p.f))
    [] envp = "null" -> Fails(p)
    [] OTHER -> Ends(p, wcrt_install(p.f, p.env))
feupdateenv(p, envp) ==
  LET set == fesetenv(p, envp)
  IN IF set.r # 0 THEN set ELSE Ends(p, Raised(set.f, wcrt_native_flags(p.f)))

(* The processor raises what a computation of one unit runs into.          *)
Computes(p, unit, raises) == Ends(p, [p.f EXCEPT ![unit].flags = @ \cup raises])

Called(p, c) ==
  CASE c.call = "clear" -> feclearexcept(p, c.excepts)
    [] c.call = "get" -> fegetexceptflag(p, c.excepts)
    [] c.call = "raise" -> feraiseexcept(p, c.excepts)
    [] c.call = "set" -> fesetexceptflag(p, c.excepts)
    [] c.call = "test" -> fetestexcept(p, c.excepts)
    [] c.call = "round" -> fesetround(p, c.round)
    [] c.call = "getenv" -> fegetenv(p)
    [] c.call = "hold" -> feholdexcept(p)
    [] c.call = "setenv" -> fesetenv(p, c.envp)
    [] c.call = "update" -> feupdateenv(p, c.envp)
    [] c.call = "compute" -> Computes(p, c.unit, c.raises)

-----------------------------------------------------------------------------
(* What a call promises of the one environment the interface speaks of:    *)
(* its flags, its direction and whether anything can trap.                 *)
Environment(f) ==
  [flags |-> wcrt_native_flags(f), round |-> wcrt_native_round(f),
   traps |-> f.x87.traps # {} \/ (X64 /\ f.sse.traps # {})]
Default == [flags |-> {}, round |-> "nearest", traps |-> FALSE]
(* Of a saved environment; one whose SSE register holds 0 comes back with  *)
(* that unit's exceptions masked.                                          *)
Saved(e) ==
  [flags |-> e.status, round |-> e.control,
   traps |-> e.x87.traps # {} \/ (X64 /\ e.sse.traps # {} /\ ~IsZero(e.sse))]
Target(p, c) == IF c.envp = "env" THEN Saved(p.env) ELSE Default

Promised(p, c) ==
  LET v == Environment(p.f)
      refused == c.call \in {"setenv", "update"} /\ c.envp = "null"
  IN CASE c.call = "clear" -> [v EXCEPT !.flags = @ \ c.excepts]
       [] c.call = "raise" -> [v EXCEPT !.flags = @ \cup Mask(c.excepts)]
       [] c.call = "set" -> [v EXCEPT !.flags = (@ \ c.excepts) \cup (p.flagp \cap c.excepts)]
       [] c.call = "round" /\ c.round \in Rounds -> [v EXCEPT !.round = c.round]
       [] c.call = "hold" -> [v EXCEPT !.flags = {}, !.traps = FALSE]
       [] c.call = "setenv" /\ ~refused -> Target(p, c)
       [] c.call = "update" /\ ~refused -> [Target(p, c) EXCEPT !.flags = @ \cup v.flags]
       [] c.call = "compute" /\ (X64 \/ c.unit = "x87") -> [v EXCEPT !.flags = @ \cup Mask(c.raises)]
       [] OTHER -> v

CallCorrect(p, c) ==
  LET after == Called(p, c)
      v == Environment(p.f)
  IN /\ Environment(after.f) = Promised(p, c)
     /\ c.call \in {"getenv", "hold"} => Saved(after.env).flags = v.flags /\ Saved(after.env).round = v.round
     /\ c.call \notin {"getenv", "hold"} => after.env = p.env
     /\ c.call = "test" => after.r = v.flags \cap c.excepts
     /\ c.call = "get" => after.flagp = v.flags \cap c.excepts
     /\ c.call = "round" /\ X64 /\ after.r = 0 => after.f.x87.round = after.f.sse.round
     /\ c.call # "compute" => ("denormal" \in after.f.x87.flags) = ("denormal" \in p.f.x87.flags)

(* Every call of a program does what it promises, whatever the earlier     *)
(* ones left in the two units.                                             *)
RECURSIVE CallsCorrect(_, _)
CallsCorrect(p, calls) ==
  calls = <<>> \/ (CallCorrect(p, Head(calls)) /\ CallsCorrect(Called(p, Head(calls)), Tail(calls)))
=============================================================================
