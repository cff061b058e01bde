--------------------------------- MODULE Keys --------------------------------
(***************************************************************************)
(* The keyboard of the gitfm tools (tty.c): the sorted list of bound key   *)
(* sequences, and tty_get_key, which reads bytes until they are a bound    *)
(* sequence or cannot become one, and counts how often the sequence        *)
(* repeats in what was read ahead.                                         *)
(*                                                                         *)
(* Bytes are numbers.  A byte with the 8th bit stands for ESC and the      *)
(* 7-bit character (tty_extract_key), and 0 (^SPC) is changed to 255, so   *)
(* that sequences can be C strings.                                        *)
(***************************************************************************)
EXTENDS Integers, SequencesExt

CONSTANTS
  KeySeq,        \* the sequences the configuration binds, non-empty
  Command,       \* what they are bound to
  Byte,          \* bytes the keyboard sends
  MaxKeyLength,  \* MAX_KEY_LENGTH
  MaxKeys,       \* bound: bindings
  MaxRead        \* bound: bytes read at once

ESC == 27
key_ENTER == 10
key_INTERRUPT == 7

ASSUME KeysAssumption ==
  /\ KeySeq \subseteq Seq(Nat) \ {<<>>}
  /\ Byte \subseteq 0 .. 255
  /\ MaxKeyLength \in Nat /\ MaxKeys \in Nat /\ MaxRead \in Nat

VARIABLES
  list,         \* the bindings, in the order of the list
  key,          \* static variable of tty_key_list_insert: the last insertion
  keybuf,       \* the bytes that were read and not yet extracted
  tty_key_seq,  \* the characters of the current sequence
  current_key,  \* where the incremental search stands
  restricted,   \* tty_kbdmode = TTY_RESTRICTED_INPUT
  pc,           \* "bind", "get", "match", "more", "found", "default", "undefined"
  repeat_count,
  order,        \* history variable: the bindings in the order they were made
  taken         \* history variable: the characters this key has used up

bindings == <<list, key, order>>
vars     == <<bindings, keybuf, tty_key_seq, current_key, restricted, pc,
              repeat_count, taken>>

(* strcmp(s, t) <= 0.                                                      *)
Leq(s, t) ==
  \/ IsPrefix(s, t)
  \/ \E i \in DOMAIN s \cap DOMAIN t :
       s[i] < t[i] /\ \A j \in 1 .. i - 1 : s[j] = t[j]

FirstBehind(from, s) ==    \* mutant
  CHOOSE i \in from .. Len(list) + 1 :
    /\ i = Len(list) + 1 \/ ~Leq(list[i].key_seq, s)
    /\ \A j \in from .. i - 1 : Leq(list[j].key_seq, s)

(* The first entry of the list, from `from' on, that is not less than s;   *)
(* behind the last one if there is none.                                   *)
FirstFrom(from, s) ==
  CHOOSE i \in from .. Len(list) + 1 :
    /\ i = Len(list) + 1 \/ Leq(s, list[i].key_seq)
    /\ \A j \in from .. i - 1 : ~Leq(s, list[j].key_seq)

-----------------------------------------------------------------------------
(* tty_key_list_insert goes on from the last insertion if it can.          *)
Bind(s, command) ==
  /\ pc = "bind" /\ Len(list) < MaxKeys
  /\ LET from == IF key = 0 \/ Leq(s, list[key].key_seq) THEN 1 ELSE key
         at   == FirstFrom(from, s)
         new  == [key_seq |-> s, aux_data |-> command]
     IN list' = InsertAt(list, at, new) /\ key' = at /\ order' = Append(order, new)
  /\ UNCHANGED <<keybuf, tty_key_seq, current_key, restricted, pc, repeat_count, taken>>

(* tty_get_key is called, the keyboard being in either mode.               *)
GetKey ==
  /\ pc \in {"bind", "found", "default", "undefined"}
  /\ pc' = "get"
  /\ tty_key_seq' = <<>> /\ repeat_count' = 1 /\ taken' = <<>>
  /\ current_key' = 1
  /\ restricted' \in BOOLEAN
  /\ UNCHANGED <<bindings, keybuf>>

(* tty_getc reads all that is available when nothing is left.              *)
Read(bytes) ==
  /\ pc \in {"get", "more"} /\ keybuf = <<>>
  /\ keybuf' = bytes
  /\ UNCHANGED <<bindings, tty_key_seq, current_key, restricted, pc, repeat_count, taken>>

NonZero(c) == IF c = 0 THEN 255 ELSE c

(* tty_extract_key.                                                        *)
Extracted == IF Head(keybuf) >= 128 THEN ESC ELSE NonZero(Head(keybuf))
Rest      == IF Head(keybuf) >= 128 THEN <<Head(keybuf) - 128>> \o Tail(keybuf)
                                    ELSE Tail(keybuf)

Printable(c) == c \in 32 .. 126

(* With restricted input both ends of a line are the key Enter.            *)
Received == IF pc = "get" /\ restricted /\ Extracted \in {10, 13} THEN key_ENTER
                                                               ELSE Extracted

(* The next character of the sequence.  With restricted input a printable  *)
(* first character is a key of its own, and so is the one that interrupts; *)
(* a sequence that has reached MAX_KEY_LENGTH is given up, and the         *)
(* character with it.                                                      *)
Extract ==
  /\ pc \in {"get", "more"} /\ keybuf # <<>>
  /\ keybuf' = Rest
  /\ taken' = Append(taken, Extracted)
  /\ IF Len(tty_key_seq) = MaxKeyLength
     THEN pc' = "undefined" /\ UNCHANGED tty_key_seq
     ELSE /\ tty_key_seq' = Append(tty_key_seq, Received)
          /\ pc' = IF /\ pc = "get" /\ restricted
                      /\ Printable(Received) \/ Received = key_INTERRUPT
                   THEN "default" ELSE "match"
  /\ UNCHANGED <<bindings, current_key, restricted, repeat_count>>

(* tty_key_search looks from the last place on.                            *)
Found     == FirstFrom(current_key, tty_key_seq)
Matches   == Found <= Len(list) /\ list[Found].key_seq = tty_key_seq
MayMatchAnywhere == Found <= Len(list)    \* mutant

MayMatch  == \/ current_key = Len(list) + 1
             \/ Found <= Len(list) /\ IsPrefix(tty_key_seq, list[Found].key_seq)

Times(s, n) == FlattenSeq([i \in 1 .. n |-> s])

RepeatsAnything == Len(keybuf) \div Len(tty_key_seq)    \* mutant

(* How often the sequence comes again in the bytes that were read ahead.   *)
Repeats == CHOOSE n \in 0 .. Len(keybuf) :
             /\ IsPrefix(Times(tty_key_seq, n), keybuf)
             /\ ~IsPrefix(Times(tty_key_seq, n + 1), keybuf)

Raw(bytes) == FlattenSeq([i \in DOMAIN bytes |->
                IF bytes[i] >= 128 THEN <<ESC, NonZero(bytes[i] - 128)>>
                                   ELSE <<NonZero(bytes[i])>>])

MatchKey ==
  /\ pc = "match" /\ Matches
  /\ pc' = "found" /\ current_key' = Found
  /\ LET ahead == Repeats * Len(tty_key_seq)
     IN /\ repeat_count' = 1 + Repeats
        /\ taken' = taken \o Raw(SubSeq(keybuf, 1, ahead))
        /\ keybuf' = SubSeq(keybuf, ahead + 1, Len(keybuf))
  /\ UNCHANGED <<bindings, tty_key_seq, restricted>>

MatchMore ==
  /\ pc = "match" /\ ~Matches /\ MayMatch
  /\ pc' = "more" /\ current_key' = Found
  /\ UNCHANGED <<bindings, keybuf, tty_key_seq, restricted, repeat_count, taken>>

MatchNone ==
  /\ pc = "match" /\ ~Matches /\ ~MayMatch
  /\ pc' = "undefined" /\ current_key' = Found
  /\ UNCHANGED <<bindings, keybuf, tty_key_seq, restricted, repeat_count, taken>>

Init ==
  /\ list = <<>> /\ key = 0 /\ order = <<>>
  /\ keybuf = <<>> /\ tty_key_seq = <<>> /\ current_key = 1
  /\ restricted = FALSE /\ pc = "bind" /\ repeat_count = 1 /\ taken = <<>>

Next ==
  \/ \E s \in KeySeq, c \in Command : Bind(s, c)
  \/ GetKey
  \/ \E n \in 1 .. MaxRead : \E bytes \in [1 .. n -> Byte] : Read(bytes)
  \/ Extract \/ MatchKey \/ MatchMore \/ MatchNone

Spec == Init /\ [][Next]_vars

-----------------------------------------------------------------------------
Binding == [key_seq : KeySeq, aux_data : Command]

TypeOK ==
  /\ list \in Seq(Binding) /\ order \in Seq(Binding)
  /\ key \in 0 .. Len(list)
  /\ current_key \in 1 .. Len(list) + 1
  /\ Len(tty_key_seq) <= MaxKeyLength
  /\ repeat_count \in Nat \ {0}
  /\ pc \in {"bind", "get", "match", "more", "found", "default", "undefined"}

Sorted ==
  /\ Len(list) = Len(order) /\ ToSet(list) = ToSet(order)
  /\ \A i, j \in DOMAIN list : i < j => Leq(list[i].key_seq, list[j].key_seq)

(* The first entry of a sequence is the binding that was made last.        *)
FirstOf(i)   == \A j \in 1 .. i - 1 : list[j].key_seq # list[i].key_seq
Latest(s, b) == \E k \in DOMAIN order :
                  /\ order[k] = b /\ b.key_seq = s
                  /\ \A l \in DOMAIN order : order[l].key_seq = s => l <= k
LatestFirst  == \A i \in DOMAIN list : FirstOf(i) => Latest(list[i].key_seq, list[i])

(* The list holds every binding that was made, sorted, and among bindings  *)
(* of one sequence the latest comes first; the search relies on it, and    *)
(* the shortcut of tty_key_list_insert must not break it.                  *)
ListSorted == Sorted /\ LatestFirst

(* A key that is returned has been typed: the characters used up are its   *)
(* sequence, as many times as repeat_count says, no more and no less, and  *)
(* the command is the one bound last.  With restricted input a ^M that     *)
(* comes first was typed for the key Enter.                                *)
Entered(s) == IF restricted /\ s # <<>> /\ s[1] = 13 THEN [s EXCEPT ![1] = key_ENTER] ELSE s
KeyIsTyped ==
  pc = "found" =>
    /\ Entered(taken) = Times(list[current_key].key_seq, repeat_count)
    /\ Latest(tty_key_seq, list[current_key])

(* Reading goes on only for a proper beginning of a bound sequence, and is *)
(* given up only when neither a bound sequence begins like what was typed  *)
(* nor what was typed begins with one, or at the maximal length.           *)
OnlyPrefixesWait ==
  /\ pc = "more" /\ list # <<>> =>
       /\ \E i \in DOMAIN list : IsStrictPrefix(tty_key_seq, list[i].key_seq)
       /\ \A i \in DOMAIN list : ~IsPrefix(list[i].key_seq, tty_key_seq)
  /\ pc = "undefined" /\ Len(taken) <= MaxKeyLength =>
       \A i \in DOMAIN list : /\ ~IsPrefix(tty_key_seq, list[i].key_seq)
                              /\ ~IsPrefix(list[i].key_seq, tty_key_seq)
=============================================================================
