----------------------------- MODULE CommandLine -----------------------------
(***************************************************************************)
(* The line editor and the parser of command_task: what the keys typed on  *)
(* the terminal make it do.  What it should do is said by a definition of  *)
(* the edited text that knows no buffer.                                   *)
(***************************************************************************)
EXTENDS Integers, SequencesExt

CONSTANTS
  CmdBufSize,  \* CMD_BUF_SIZE
  Keys,        \* keys that are typed
  MaxKeys      \* bound: keys in a run

VARIABLES
  keys,        \* the keys so far
  line         \* cmd_buf[0 .. pos), and what the lines before made the task do

lineVars == <<keys, line>>

Enter == {"CR", "LF"}
Rubout == {"BS", "DEL"}
Blank == {" ", "\t"}

DigitValue == [d \in {"0", "1", "2", "3", "4", "5", "6", "7", "8", "9"} |->
  CASE d = "0" -> 0 [] d = "1" -> 1 [] d = "2" -> 2 [] d = "3" -> 3 [] d = "4" -> 4
    [] d = "5" -> 5 [] d = "6" -> 6 [] d = "7" -> 7 [] d = "8" -> 8 [] d = "9" -> 9]

IsDigit(key) == key \in DOMAIN DigitValue

(* strtoul at the start of text: the longest prefix of digits.             *)
Strtoul(text) ==
  LET stop == SelectInSeq(text, LAMBDA key : ~IsDigit(key))
      digits == IF stop = 0 THEN text ELSE SubSeq(text, 1, stop - 1)
  IN  FoldLeft(LAMBDA n, d : 10 * n + DigitValue[d], 0, digits)

SkipSpaces(text) ==
  LET first == SelectInSeq(text, LAMBDA key : key \notin Blank)
  IN  IF first = 0 THEN <<>> ELSE SubSeq(text, first, Len(text))

(* parseLatestCount; 0 where it returns false.                             *)
LatestCount(text) ==
  LET n == Strtoul(SkipSpaces(Tail(text)))
  IN  IF Head(text) \notin {"l", "L"} THEN 0
      ELSE IF n > 100000 THEN 100000 ELSE n

Unknown == <<"unknown", 0>>

(* The branches taken on a line that is not empty.                         *)
Command(text) ==
  CASE text \in {<<"h">>, <<"H">>} -> <<"help", 0>>
    [] text \in {<<"s">>, <<"S">>} -> <<"status", 0>>
    [] text \in {<<"p">>, <<"P">>} -> <<"pause", 0>>
    [] text \in {<<"r">>, <<"R">>} -> <<"resume", 0>>
    [] text \in {<<"a">>, <<"A">>} -> <<"dump", 0>>
    [] text \in {<<"e">>, <<"E">>} -> <<"erase", 0>>
    [] LatestCount(text) > 0       -> <<"latest", LatestCount(text)>>
    [] OTHER                       -> Unknown

-----------------------------------------------------------------------------
LineInit == keys = <<>> /\ line = [text |-> <<>>, ran |-> <<>>]

EnterKey ==
  [text |-> <<>>,
   ran  |-> IF line.text = <<>> THEN line.ran ELSE Append(line.ran, Command(line.text))]

(* Mutant of RuboutKey: a rubout at the start of a line is a character.    *)
RuboutKeyTyped ==
  IF line.text = <<>> THEN [line EXCEPT !.text = <<"BS">>]
  ELSE [line EXCEPT !.text = Front(@)]

RuboutKey == IF line.text = <<>> THEN line ELSE [line EXCEPT !.text = Front(@)]

(* A key too many is dropped and so is the line so far; the next key       *)
(* begins a new one.                                                       *)
TextKey(key) ==
  IF Len(line.text) < CmdBufSize - 1 THEN [line EXCEPT !.text = Append(@, key)]
  ELSE [line EXCEPT !.text = <<>>]

(* One round of the loop.                                                  *)
TypeKey(key) ==
  /\ Len(keys) < MaxKeys
  /\ keys' = Append(keys, key)
  /\ line' = CASE key \in Enter  -> EnterKey
               [] key \in Rubout -> RuboutKey
               [] OTHER          -> TextKey(key)

LineNext == \E key \in Keys : TypeKey(key)

LineSpec == LineInit /\ [][LineNext]_lineVars

-----------------------------------------------------------------------------
(* The same without a buffer: between two enters, a character stays unless *)
(* at some later point more rubouts than characters have come behind it.   *)
IsText(i) == keys[i] \notin Enter \cup Rubout

Behind(i, j) ==
  Cardinality({k \in i + 1 .. j : IsText(k)})
    - Cardinality({k \in i + 1 .. j : keys[k] \in Rubout})

Stays(i, j) == IsText(i) /\ \A m \in i .. j : Behind(i, m) >= 0

OnLine(i, end) == \A k \in i .. end - 1 : keys[k] \notin Enter

(* The keys that make the line on which key number end is typed, before it.*)
Left(end) == {i \in 1 .. end - 1 : OnLine(i, end) /\ Stays(i, end - 1)}

(* The values of f at the numbers in S, in the order of the numbers.       *)
InOrder(S, f) ==
  [n \in 1 .. Cardinality(S) |->
    f[CHOOSE i \in S : Cardinality({k \in S : k <= i}) = n]]

Edited(end) == InOrder(Left(end), keys)

(* No character finds the buffer full.                                     *)
Fits == \A k \in DOMAIN keys : IsText(k) => Len(Edited(k)) < CmdBufSize - 1

(* The enters that end a line with something on it.                        *)
Lines == {k \in DOMAIN keys : keys[k] \in Enter /\ Edited(k) # <<>>}

(* The command task does what the edited lines say, once per line and in   *)
(* their order: a log area is erased only by a line whose text, after      *)
(* every rubout, is that command.  (A line longer than the buffer is not   *)
(* covered: its tail counts as a line of its own.)                         *)
LinesRunAsTyped ==
  Fits => line.ran = InOrder(Lines, [k \in DOMAIN keys |-> Command(Edited(k))])
=============================================================================
