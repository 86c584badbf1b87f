----------------------------- MODULE PriceInput -----------------------------
(***************************************************************************)
(* The amount field of the bet slip: what is kept of what the user types,  *)
(* the amount reported on every change and the text put back on blur.  The *)
(* code works on strings digit by digit; a text is here the digits before  *)
(* and after the separator.                                                *)
(***************************************************************************)
EXTENDS Integers, Sequences, SequencesExt

Digits == 0..9
Separator == 10       \* a dot or a comma
Other == 11           \* any other character
Dp == 2               \* maxDecimals

Text(int, frac, sep) == [int |-> int, frac |-> frac, sep |-> sep]
Empty == Text(<<>>, <<>>, FALSE)

Chars == Digits \cup {Separator, Other}

(* sanitizeForEditing: the digits and the first separator. *)
Kept(out, ch) ==
    IF ch \in Digits THEN IF out.sep THEN [out EXCEPT !.frac = Append(@, ch)]
                                     ELSE [out EXCEPT !.int = Append(@, ch)]
    ELSE IF ch = Separator THEN [out EXCEPT !.sep = TRUE] ELSE out
Outs(raw) ==
    LET out[n \in 0..Len(raw)] == IF n = 0 THEN Empty ELSE Kept(out[n - 1], raw[n])
    IN  out
SanitizeForEditing(raw) == Outs(raw)[Len(raw)]

(* One more in the last place: the loops of incIntString and addOne, with what is
   left of the carry. *)
CarryOut(s) == \A i \in DOMAIN s : s[i] = 9
Bumped(s) == [i \in DOMAIN s |->
                 IF \E j \in (i + 1)..Len(s) : s[j] # 9 THEN s[i] ELSE (s[i] + 1) % 10]
IncInt(s) == IF CarryOut(s) THEN <<1>> \o Bumped(s) ELSE Bumped(s)
AddOneNoCarry(t) == [t EXCEPT !.frac = Bumped(@)]
AddOne(t) ==
    Text(IF CarryOut(t.frac) THEN IncInt(t.int) ELSE t.int, Bumped(t.frac), t.sep)

ToFixedDp(int, frac) == Text(int, [i \in 1..Dp |-> IF i <= Len(frac) THEN frac[i] ELSE 0], TRUE)

RoundHalfDown(t) ==
    LET int == IF t.int = <<>> THEN <<0>> ELSE t.int
        rest == SubSeq(t.frac, Dp + 1, Len(t.frac))
        shouldUp == \/ rest[1] > 5
                    \/ rest[1] = 5 /\ \E i \in 2..Len(rest) : rest[i] # 0
        kept == ToFixedDp(int, t.frac)
    IN  IF rest # <<>> /\ shouldUp THEN AddOne(kept) ELSE kept

(* onChange: the amount in cents reported for a text; none for an empty one. *)
Values(digits) ==
    LET value[n \in 0..Len(digits)] == IF n = 0 THEN 0 ELSE 10 * value[n - 1] + digits[n]
    IN  value
Number(digits) == Values(digits)[Len(digits)]
Amount(t) ==
    IF t = Empty THEN <<>>
    ELSE LET rounded == RoundHalfDown(t) IN <<Number(rounded.int \o rounded.frac)>>

(* commitRound, on blur: leading zeros go and the rounded text is put back. *)
NoLeadingZeros(s) ==
    LET first == SelectInSeq(s, LAMBDA d : d # 0)
    IN  IF first = 0 THEN <<>> ELSE SubSeq(s, first, Len(s))
CommitCuts(t) ==
    IF t = Empty THEN t ELSE ToFixedDp(NoLeadingZeros(t.int), t.frac)
CommitRound(t) ==
    IF t = Empty THEN t ELSE RoundHalfDown([t EXCEPT !.int = NoLeadingZeros(@)])

-----------------------------------------------------------------------------
(* A one and n zeros. *)
Unit(n) == Number([i \in 1..(n + 1) |-> IF i = 1 THEN 1 ELSE 0])

(* PriceInput.tsx 73-97, 113-146: the amount is the hundredth nearest to what was
   typed, the lower one when two are equally near ("Round-half-down", line 73), through
   every carry of nines into the units; the text put back on blur stands for that
   same amount, and putting it back twice changes nothing. *)
RoundsRight(raws) ==
    \A raw \in raws :
        LET t == SanitizeForEditing(raw)
            long == IF Len(t.frac) <= Dp THEN ToFixedDp(t.int, t.frac) ELSE t
            typed == Number(long.int \o long.frac)
            unit == Unit(Len(long.frac) - Dp)
        IN  t # Empty =>
              /\ -unit < 2 * (typed - unit * Amount(t)[1])
              /\ 2 * (typed - unit * Amount(t)[1]) <= unit
              /\ Amount(CommitRound(t)) = Amount(t)
              /\ CommitRound(CommitRound(t)) = CommitRound(t)

=============================================================================
