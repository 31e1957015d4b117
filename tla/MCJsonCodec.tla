---------------------------- MODULE MCJsonCodec ----------------------------
(***************************************************************************)
(* All structures, and one JSON value of each kind: null, a string, an     *)
(* array of a string and a null, an object, and the integers around the    *)
(* ends of int and of unsigned long long.                                  *)
(***************************************************************************)
EXTENDS JsonCodec

MCStrings == {"", "s"}
MCValues ==
    {Null, Str("s"), Bool(TRUE), Tenths(15), Array(<<Str("s"), Null>>), EmptyObject,
     Number(2), Number(8), Number(MinInt - 1), Number(MaxInt), Number(MaxInt + 1),
     Number(MaxUnsigned)}
============================================================================
