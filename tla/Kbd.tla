--------------------------------- MODULE Kbd ---------------------------------
(***************************************************************************)
(* The keyboard driver's view of the modifier keys (kbd.c: kbdgetc), fed   *)
(* by a keyboard whose scan codes wait in the controller.  A key sends its *)
(* make code when pressed (and again while it repeats) and that plus 0x80  *)
(* when released, some after the prefix 0xE0; with a shift key down, the   *)
(* grey keys surround theirs with a fake E0 AA ... E0 2A.  The character   *)
(* that kbdgetc() returns is left out.                                     *)
(***************************************************************************)
EXTENDS Integers, Sequences, FiniteSets

CONSTANTS Key,       \* the keys: <<prefixed, make code>>
          MaxWire    \* bound: bytes in the controller

VARIABLES shift,     \* the flags of `static uint shift'
          wire,      \* bytes not yet read
          down       \* keys held down

kbdVars == <<shift, wire, down>>

KbdInit == shift = {} /\ wire = <<>> /\ down = {}

shiftcode(d) ==
  CASE d \in {29, 157}    -> {"CTL"}     \* 0x1D, 0x9D
    [] d \in {42, 54}     -> {"SHIFT"}   \* 0x2A, 0x36
    [] d \in {56, 184}    -> {"ALT"}     \* 0x38, 0xB8
    [] OTHER              -> {}
togglecode(d) ==
  CASE d = 58             -> {"CAPSLOCK"}     \* 0x3A
    [] d = 69             -> {"NUMLOCK"}      \* 0x45
    [] d = 70             -> {"SCROLLLOCK"}   \* 0x46
    [] OTHER              -> {}
Modifiers(k) == shiftcode(IF k[1] THEN k[2] + 128 ELSE k[2])

-----------------------------------------------------------------------------
Grey(k) == k[1] /\ Modifiers(k) = {}
Make(k) == IF k[1] THEN <<224, k[2]>> ELSE <<k[2]>>
Break(k) == IF k[1] THEN <<224, k[2] + 128>> ELSE <<k[2] + 128>>
ShiftDown == \E k \in down : Modifiers(k) = {"SHIFT"}
FakeUp == <<224, 170>>   \* E0 AA
FakeDown == <<224, 42>>  \* E0 2A

Press(k) ==
  /\ wire' = wire \o (IF Grey(k) /\ ShiftDown THEN FakeUp ELSE <<>>) \o Make(k)
  /\ Len(wire') <= MaxWire
  /\ down' = down \union {k} /\ UNCHANGED shift

Release(k) ==
  /\ k \in down
  /\ wire' = wire \o Break(k) \o (IF Grey(k) /\ ShiftDown THEN FakeDown ELSE <<>>)
  /\ Len(wire') <= MaxWire
  /\ down' = down \ {k} /\ UNCHANGED shift

-----------------------------------------------------------------------------
ReleasedMasked(data) == data % 128   \* (a mutant of Released) for grey keys as well
Released(data) == IF "E0ESC" \in shift THEN data ELSE data % 128

Kbdgetc ==
  LET data == Head(wire)
      d    == IF "E0ESC" \in shift THEN data + 128 ELSE data
  IN  /\ wire # <<>> /\ wire' = Tail(wire) /\ UNCHANGED down
      /\ \/ data = 224 /\ shift' = shift \union {"E0ESC"}
         \/ /\ data # 224 /\ data >= 128
            /\ shift' = shift \ (shiftcode(Released(data)) \union {"E0ESC"})
         \/ /\ data < 128
            /\ LET s == (shift \ {"E0ESC"}) \union shiftcode(d)
               IN  shift' = (s \ togglecode(d)) \union (togglecode(d) \ s)

KbdNext == (\E k \in Key : Press(k) \/ Release(k)) \/ Kbdgetc

-----------------------------------------------------------------------------
(* Once all codes are read, a modifier is on only while a key of it is     *)
(* held, it is on when all of them are, and no prefix is left over: fake   *)
(* shifts and the two keys of a modifier do not get it stuck (kbdgetc,     *)
(* kbd.c:20-35).                                                           *)
KbdModifiers ==
  wire = <<>> =>
    /\ "E0ESC" \notin shift
    /\ \A m \in {"CTL", "SHIFT", "ALT"} :
         LET keys == {k \in Key : m \in Modifiers(k)}
         IN  /\ m \in shift => keys \intersect down # {}
             /\ keys # {} /\ keys \subseteq down => m \in shift
=============================================================================
