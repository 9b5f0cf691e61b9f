----------------------- MODULE MCProductVerification -----------------------
(***************************************************************************)
(* The verification page with a field that may be empty or hold a word, a  *)
(* number, one with a leading zero or one in braces, and a chain that      *)
(* knows one authentic and one counterfeit product and misses a third.     *)
(***************************************************************************)
EXTENDS ProductVerification, TLC

MCText == {"", "abc", "1", "02", "{3}"}
MCBlankText == {""}
MCClean == ("" :> "") @@ ("abc" :> "abc") @@ ("1" :> "1")
           @@ ("02" :> "02") @@ ("{3}" :> "3")
MCNumeric == {"1", "02", "3"}
MCParseInt == ("1" :> 1) @@ ("02" :> 2) @@ ("3" :> 3)
MCChain == (1 :> "authentic") @@ (2 :> "counterfeit") @@ (3 :> "absent")
MCCode == {"code1"}
MCCodeId == "code1" :> "1"
=============================================================================
