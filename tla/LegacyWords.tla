------------------------------ MODULE LegacyWords ------------------------------
(***************************************************************************)
(* The words and addresses of the mainframes the bridge stands in for:     *)
(* the model registry of UnivacArchitectureHAL, the Gray code of the shaft *)
(* encoders, the handshake address of UnivacMacAlignmentEngine, and the    *)
(* valve whose light becomes one hexadecimal digit.                        *)
(*                                                                         *)
(* A word is the set of its one bits, so that & is intersection, ^ is      *)
(* symmetric difference, and words wider than TLC's integers are no        *)
(* harder than narrow ones; a negative integer has every high bit set, up  *)
(* to MaxBit.  The assumptions that follow a definition compare it with a  *)
(* reference definition; TLC evaluates them in every run of BootSequence.  *)
(***************************************************************************)
EXTENDS Integers, Sequences, FiniteSets

MaxBit == 39        \* bound: no register is wider than 36 bits

Xor(u, v) == (u \ v) \cup (v \ u)

\* Python's integer as a word: two's complement, as wide as need be.
WordOf(n) == {i \in 0..MaxBit : IF i > 29 THEN n < 0 ELSE (n \div 2^i) % 2 = 1}

ValueOf(w) == LET Sum[i \in 0..30] == IF i = 0 THEN 0
                      ELSE Sum[i - 1] + (IF i - 1 \in w THEN 2^(i - 1) ELSE 0)
              IN  Sum[30]

-----------------------------------------------------------------------------
(* univac_architecture_hal.py                                              *)

Low(n) == 0..(n - 1)
Holed == {1, 3, 5, 7, 9, 11, 13, 15, 17, 19, 21, 23} \cup 24..31    \* 0xFFAAAAAA

Registry ==
    [m \in {"1219", "AN/UYK-43", "AN/UYK-20", "AN/AYK-14", "490", "494", "1107", "1108"} |->
        CASE m = "1219"                     -> [bits |-> 18, mask |-> Low(18)]
          [] m = "AN/UYK-43"                -> [bits |-> 32, mask |-> Low(32)]
          [] m \in {"AN/UYK-20", "AN/AYK-14"} -> [bits |-> 16, mask |-> Low(16)]
          [] m \in {"490", "494"}           -> [bits |-> 30, mask |-> Low(30)]
          [] m \in {"1107", "1108"}         -> [bits |-> 36, mask |-> Holed]]

Models == DOMAIN Registry

\* clear_interlocks_for_model: a name it does not know keeps the model.
SelectModel(active, target) ==
    LET name == CASE target = "43" -> "AN/UYK-43"
                  [] target = "20" -> "AN/UYK-20"
                  [] target = "14" -> "AN/AYK-14"
                  [] OTHER         -> target
    IN  IF name \in Models THEN name ELSE active

PackNativeWord(m, w) == w \cap Registry[m].mask

ByteCount(m) == (Registry[m].bits + 7) \div 8

\* Big-endian: byte 1 holds the highest bits.
NativeBytes(m, w) ==
    [k \in 1..ByteCount(m) |->
        {b \in 0..7 : 8 * (ByteCount(m) - k) + b \in PackNativeWord(m, w)}]

\* The number a mainframe of that width reads from the bytes.
ReadBack(m, bytes) ==
    LET word == UNION {{8 * (Len(bytes) - k) + b : b \in bytes[k]} : k \in DOMAIN bytes}
        sign == Registry[m].bits - 1
    IN  IF sign \in word THEN word \cup (sign..MaxBit) ELSE word

RudderWords == {WordOf(n) : n \in {-3500, -1425, -1, 0, 1, 1425, 3500}}

\* A rudder order, in hundredths of a degree and of either sign, is the number
\* the mainframe reads: the byte count is enough and the sign survives.  The
\* two models with the mask 0xFFAAAAAA are the exception, the next assumption.
ASSUME RudderSurvivesTheWire ==
    \A m \in Models \ {"1107", "1108"}, w \in RudderWords :
        ReadBack(m, NativeBytes(m, w)) = w

\* Those two keep every other bit of the low 24 and none of the high four of
\* the 36 they declare: 14.25 degrees leaves as 1.28.
ASSUME HoledMaskLosesBits ==
    /\ PackNativeWord("1108", WordOf(1425)) # WordOf(1425)
    /\ Cardinality(Registry["1108"].mask) = 20

-----------------------------------------------------------------------------
(* cray_gray_code_parser.py                                                *)

ShiftRight(w) == {i - 1 : i \in w \ {0}}

\* The loop ends when the shift register is empty; further rounds change nothing.
DecodeGray(raw, bits) ==
    LET clean == raw \cap Low(bits)
        Round[k \in 0..bits] ==
            IF k = 0 THEN [binary |-> clean, shift |-> clean]
            ELSE LET s == ShiftRight(Round[k - 1].shift)
                 IN  [binary |-> Xor(Round[k - 1].binary, s), shift |-> s]
    IN  Round[bits].binary

\* The register the decoder keeps: the angle in hundredths of a degree, cut
\* where the code rounds to even.
GrayTelemetry(raw, bits) ==
    LET count == ValueOf(DecodeGray(raw, bits))
    IN  [gray |-> raw \cap Low(bits), count |-> count,
         angle |-> (count * 36000) \div 2^bits]

\* The decoder inverts the reflected code, bits above the resolution
\* notwithstanding, and angles grow with the count and stay below 360 degrees.
ASSUME GrayInverts ==
    \A n \in 0..255 :
        LET w == WordOf(n)
            t == GrayTelemetry(Xor(w, ShiftRight(w)) \cup {9, 13}, 8)
        IN  /\ t.count = n /\ t.angle < 36000
            /\ n > 0 => GrayTelemetry(Xor(WordOf(n - 1), ShiftRight(WordOf(n - 1))), 8).angle < t.angle

-----------------------------------------------------------------------------
(* univac_mac_aligner.py, and the same octet in hardware_network_validator. *)

Clamp(lo, hi, n) == IF n < lo THEN lo ELSE IF n > hi THEN hi ELSE n

\* Bit 2 repeats bit 0 of the device.
Octet6(device, mainframe) ==
    4 * (device % 2) + 2 * (mainframe % 2) + (device % 2)

HullClasses == {"EARLY_AEGIS_CRUISER", "EARLY_AEGIS_DESTROYER", "ENTERPRISE_CARRIER",
                "PRE_AEGIS_COMBATTANT", "PRE_AEGIS_AUXILIARY"}

\* A class the catalogue does not hold has the cruiser's prefix.
HandshakeMac(class, device, mainframe, depth, port) ==
    [oui |-> IF class \in HullClasses THEN class ELSE "EARLY_AEGIS_CRUISER",
     octets |-> <<Clamp(0, 255, depth), Clamp(0, 254, port),
                  Octet6(Clamp(0, 14, device), Clamp(0, 3, mainframe))>>]

LockSecured(mac) == (mac.octets[3] \div 4) % 2 = mac.octets[3] % 2

\* Whatever is asked for, the three octets are bytes and the latch bit is the
\* device bit: hardware_lock_secured can only be true.
ASSUME LatchIsAlwaysSet ==
    \A device \in -1..16, mainframe \in -1..5, n \in {-1, 0, 1, 254, 255, 256} :
        LET mac == HandshakeMac("UNKNOWN", device, mainframe, n, n)
        IN  LockSecured(mac) /\ \A k \in 1..3 : mac.octets[k] \in 0..255

-----------------------------------------------------------------------------
(* led_vacuum_emulator.py and hex_spectrum_modulator.py, at the plate's 220 *)
(* volts.  Voltages are in tenths; the effective one is the grid's plus 8.8. *)

EffectiveVoltage(grid) == grid + 88

\* Light is 12.5 v^1.5 lumen, cut at 100, and the digit is fifteen hundredths
\* of it: k is reached when (1.875)^2 v^3 >= k^2, here without fractions.
HexDigit(grid) ==
    LET v == EffectiveVoltage(grid)
        reached == {k \in 0..15 : v > 0 /\ 225 * v * v * v >= 64000 * k * k}
    IN  CHOOSE k \in reached \cup {0} : \A j \in reached : j <= k

SignalSaturation(grid) == HexDigit(grid) >= 14

\* 25/8500 A per volt: the cap of 150 mA is passed above 51 volts.
ValveSaturation(grid) == EffectiveVoltage(grid) > 510

\* The digit never falls as the grid rises.  At rest, a grid of nought, the
\* light is already past the crest: the alert of main.py's filter is on, and
\* it is off only below a grid of minus 4.98 volts.
ASSUME CrestAtRest ==
    /\ \A g \in -120..99 : HexDigit(g) <= HexDigit(g + 1)
    /\ SignalSaturation(0) /\ \A g \in -120..99 : SignalSaturation(g) <=> g >= -49

=============================================================================
