------------------------------- MODULE MCWire -------------------------------
(***************************************************************************)
(* The parts of the wire protocol for TLC: the reorder buffer, the         *)
(* anti-replay window, fragmentation, the handshake and its field          *)
(* arithmetic, and the frames of the WebSocket.  A behaviour is one of a   *)
(* single part, the others rest.                                           *)
(***************************************************************************)
EXTENDS ReorderBuffer, AntiReplay, Fragmentation, NoiseIK, TLC

CONSTANTS i1, i2, i3, r1, r2        \* model values: handshake runs

VARIABLES
    part,
    scalar, point, bit, fa, fb, fc, fd, ibit, inv, packed, base, sum, \* X25519Field
    queued, carried, read, got, failed                      \* WsFrame

\* The static keys of the handshake runs.
Statics == i1 :> "alice" @@ i2 :> "alice" @@ i3 :> "bob"

\* 2^14 - 3 with three limbs of five bits.
Field == INSTANCE X25519Field WITH
    L <- 3, W <- 5, C <- 3, A24 <- <<5, 1, 0>>, SkipBits <- {2},
    Scalars <- {0, 24, 1000, 4095, 6000, 8191}, Points <- {6, 9, 16380},
    n <- scalar, p <- point, i <- bit, a <- fa, b <- fb, c <- fc, d <- fd,
    j <- ibit, q <- packed

Ws == INSTANCE WsFrame WITH
    Byte <- 4, Inline <- 3, Wide <- 3, MAX_FRAME_PAYLOAD <- 16,
    Lengths <- {2, 3, 15, 16, 17}, MaxFrames <- 2,
    sent <- queued, wire <- carried, buf <- read

field == <<scalar, point, bit, fa, fb, fc, fd, ibit, inv, packed, base, sum>>
ws == <<queued, carried, read, got, failed>>

WireInit ==
    /\ part \in {"reorder", "replay", "frag", "noise", "field", "ws"}
    /\ Init /\ ReplayInit /\ FragInit /\ NoiseInit /\ Ws!Init
    /\ IF part = "field" THEN Field!Init
       ELSE /\ scalar = 0 /\ point = 0 /\ bit = 0 /\ fa = 0 /\ fb = 0 /\ fc = 0 /\ fd = 0
            /\ ibit = 0 /\ inv = 0 /\ packed = 0 /\ base = 0 /\ sum = 0

ReplayStep ==
    part = "replay" /\ ReplayNext /\ UNCHANGED <<part, vars, frag_vars, noise_vars, field, ws>>
FragStep ==
    part = "frag" /\ FragNext /\ UNCHANGED <<part, vars, replay_vars, noise_vars, field, ws>>
NoiseStep ==
    part = "noise" /\ NoiseNext /\ UNCHANGED <<part, vars, replay_vars, frag_vars, field, ws>>
FieldStep ==
    part = "field" /\ Field!Next /\ UNCHANGED <<part, vars, replay_vars, frag_vars, noise_vars, ws>>
WsStep ==
    part = "ws" /\ Ws!Next /\ UNCHANGED <<part, vars, replay_vars, frag_vars, noise_vars, field>>

OthersRest == UNCHANGED <<part, replay_vars, frag_vars, noise_vars, field, ws>>
ReorderStep == part = "reorder" /\ Next /\ OthersRest

WireNext == ReorderStep \/ ReplayStep \/ FragStep \/ NoiseStep \/ FieldStep \/ WsStep

wire_vars == <<part, vars, replay_vars, frag_vars, noise_vars, field, ws>>

\* Time passes and the owner of the reorder buffer polls it.
WireSpec ==
    /\ WireInit /\ [][WireNext]_wire_vars
    /\ WF_wire_vars(part = "reorder" /\ tick /\ OthersRest)
    /\ WF_wire_vars(part = "reorder" /\ poll_timeout /\ OthersRest)

----------------------------------------------------------------------------
\* X25519Field: the ladder computes multiples of the point.
LadderIsMultiplication == part = "field" => Field!LadderIsMultiplication

\* WsFrame: frames come out as they went in, however they are cut.
FramesAreWhole == Ws!FramesAreWhole
=============================================================================
