------------------------------ MODULE PageValue ------------------------------
(***************************************************************************)
(* How zillow/search.go and zillow/property.go read one field of a decoded *)
(* page.  A field is [is |-> kind, ...]; what could not be read is {}, and *)
(* what was is the set of that one value (a Go pointer, or value and ok).  *)
(*   nothing           the key is missing, or null                         *)
(*   text    text      a string that is no number                          *)
(*   numeral n         a string of digits, maybe signed                    *)
(*   amount  ...       a string to be read as money, see ParseMoney        *)
(*   number  n whole   a JSON number, n its value (its floor if not whole) *)
(*   truth   b         a boolean, or its name as a string                  *)
(*   list, object      (with items)                                        *)
(***************************************************************************)
EXTENDS Integers, Sequences, FiniteSets, SequencesExt, TLC

CONSTANTS MaxInt,      \* math.MaxInt64
          ZpidOf(_)    \* normalizeZPID of a text: {} or its digits without
                       \* the leading zeros

Nothing == [is |-> "nothing"]
At(raw, key) == IF key \in DOMAIN raw THEN raw[key] ELSE Nothing

Fits(n) == n >= -MaxInt - 1 /\ n <= MaxInt

\* stringFromAny; an empty text counts as none wherever it is called.
StringOf(v) ==
    CASE v.is = "text" /\ v.text # "" -> {v.text}
      [] v.is \in {"numeral", "number"} -> {ToString(v.n)}
      [] v.is = "amount" -> {"amount"}
      [] OTHER -> {}

\* floatFromAny, int64FromAny, boolFromAny
FloatOf(v) == IF v.is \in {"number", "numeral"} THEN {v.n} ELSE {}
IntOf(v) ==
    IF \/ v.is = "number" /\ v.whole /\ Fits(v.n)
       \/ v.is = "numeral" /\ Fits(v.n)
    THEN {v.n} ELSE {}
BoolOf(v) == IF v.is = "truth" THEN {v.b} ELSE {}

\* parseMoney: exactly one number, not negative, and within range once scaled.
ParseMoney(v) ==
    LET scaled == v.n * v.scale
    IN  IF v.numbers = 1 /\ ~v.negative /\ scaled <= MaxInt THEN {scaled} ELSE {}

MoneyOf(v) ==
    IF v.is = "amount" THEN ParseMoney(v) ELSE {n \in IntOf(v) : n >= 0}

\* firstString, floatPointer, int64Pointer, moneyPointer, boolPointer, and
\* their versions with a fallback: the first key that can be read.
First(raw, keys, read(_)) ==
    LET readable == SelectSeq(keys, LAMBDA key : read(At(raw, key)) # {})
    IN  IF readable = <<>> THEN {} ELSE read(At(raw, readable[1]))
FirstOfTwo(primary, fallback, keys, read(_)) ==
    IF First(primary, keys, read) # {} THEN First(primary, keys, read)
    ELSE First(fallback, keys, read)

\* validateOptionalListingFields and the loops of validatePropertyValues.
AllReadable(raw, keys, valid(_)) ==
    \A key \in keys \cap DOMAIN raw : raw[key] # Nothing => valid(raw[key])

IsText(v) == v.is \in {"text", "numeral", "amount"} \/ (v.is = "truth" /\ v.quoted)
IsTextOrNumber(v) == IsText(v) \/ v.is = "number"
IsNumeric(v) == FloatOf(v) # {}
IsIntegral(v) == IntOf(v) # {}
IsMoney(v) == IF IsText(v) THEN MoneyOf(v) # {} ELSE IsIntegral(v)

PriceKeys == <<"unformattedPrice", "baseRent", "minBaseRent", "minPrice", "price">>

\* totalMonthlyCost: unknown rather than wrapped around.
TotalMonthlyCost(price, fees, included) ==
    CASE price = {} -> {}
      [] price # {} /\ included = {TRUE} -> price
      [] OTHER -> {p + f : p \in price, f \in {x \in fees : \A q \in price : x <= MaxInt - q}}

\* communityPropertyURL: the page of a home by its ID, else the fallback.
PageOf(id, fallback) ==
    IF id # {} /\ \E text \in id : ZpidOf(text) # {}
    THEN {<<"homedetails", CHOOSE text \in id : TRUE>>} ELSE fallback
=============================================================================
