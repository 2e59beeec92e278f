------------------------------ MODULE MCRuntime -----------------------------
(***************************************************************************)
(* The ring, the timer wheel and the reactors of desmos-rt, and the        *)
(* broadcast ring, for TLC.  They do not interact with each other; a       *)
(* behaviour is one of a single part, the others rest.                     *)
(***************************************************************************)
EXTENDS SpscRing, TimerWheel, KqueueReactor, IocpReactor, Broadcast, TLC

CONSTANTS s1, s2        \* model values: sources

VARIABLE part

\* Two tokens for one source, so that a token can change.
Tokens2 == s1 :> {1, 2} @@ s2 :> {3}

\* One source in any condition, the other only ever silent or hung up.
Conditions2 == s1 :> Readiness @@ s2 :> {{}, {"R", "W", "HUP"}}

RuntimeInit ==
    /\ part \in {"ring", "wheel", "kqueue", "iocp", "bcast"}
    /\ Init /\ WheelInit /\ KqInit /\ IocpInit /\ BcastInit

RingStep ==
    part = "ring" /\ Next /\ UNCHANGED <<part, timer_wheel, kqueue, iocp, bcast>>
WheelStep ==
    part = "wheel" /\ WheelNext /\ UNCHANGED <<part, vars, kqueue, iocp, bcast>>
KqueueStep ==
    part = "kqueue" /\ KqNext /\ UNCHANGED <<part, vars, timer_wheel, iocp, bcast>>
IocpStep ==
    part = "iocp" /\ IocpNext /\ UNCHANGED <<part, vars, timer_wheel, kqueue, bcast>>
BcastStep ==
    part = "bcast" /\ BcastNext /\ UNCHANGED <<part, vars, timer_wheel, kqueue, iocp>>

RuntimeNext == RingStep \/ WheelStep \/ KqueueStep \/ IocpStep \/ BcastStep

RuntimeSpec ==
    RuntimeInit /\ [][RuntimeNext]_<<part, vars, timer_wheel, kqueue, iocp, bcast>>
=============================================================================
