---------------------------- MODULE MCClientMenu ----------------------------
(***************************************************************************)
(* A user who knows two services, one of them by a number that only counts *)
(* as one of the menu's when it is cast to an octet, and answers with      *)
(* words that fit several prompts, one prompt or none.  No word is a       *)
(* number only in part.                                                    *)
(***************************************************************************)
EXTENDS ClientMenu, TLC

MCWords == {"257", "7", "0", "quit", "nan", "usd", "-5"}
MCAlphabetic == {"quit", "nan", "usd"}
MCAlphaNumeric == {"257", "7", "0", "quit", "nan", "usd"}
MCWithoutFirst == [w \in {"quit", "nan", "usd"} |-> "rest"] @@ ("257" :> "57") @@ ("-5" :> "5")
MCCurrencyOf == [w \in {"usd"} |-> 1]
Numbers == ("257" :> 257) @@ ("7" :> 7) @@ ("0" :> 0) @@ ("-5" :> -5)
MCIntegerOf == Numbers @@ ("57" :> 57) @@ ("5" :> 5)
MCDoubleOf == Numbers @@ ("nan" :> NaN)
=============================================================================
