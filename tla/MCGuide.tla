------------------------------ MODULE MCGuide ------------------------------
(* An instance of Guide: a tool with a free and an enumerated parameter, one *)
(* with a switch; single characters and the merged tokens of the vocabulary. *)
EXTENDS Guide

MCTools ==
  <<"f">> :> (<<"p">> :> [type |-> "string", enum |-> {}]
                @@ <<"r">> :> [type |-> "string", enum |-> {<<"'", "x", "'">>}])
    @@ <<"f", "g">> :> (<<"q">> :> [type |-> "boolean", enum |-> {}])
MCVocabulary ==
  {<<c>> : c \in {"'", ":", ",", "{", "}", "[", "]", "N", "A", "f", "g", "p", "q", "r", "x", "1", "t", "\\", "T"}}
    \union {EndOfSequence, <<"'", ":", "'">>, <<"'", ",", "'">>, <<"'", ":", "1">>, <<"'", "}", "}", "]">>}
MCOpenings ==
  LET call == <<<<"[">>, <<"{">>, <<"'">>, <<"N">>, <<"'", ":", "'">>>>
      first == call \o <<<<"f">>, <<"'", ",", "'">>, <<"A">>, <<"'">>, <<":">>, <<"{">>, <<"'">>>>
  IN  {<< >>, call, first,
       first \o <<<<"p">>, <<"'", ":", "'">>, <<"x">>, <<"'">>, <<",">>, <<"'">>>>}
=============================================================================
