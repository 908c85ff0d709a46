------------------------------ MODULE MCServer ------------------------------
(***************************************************************************)
(* Two clients and their handlers; a log buffer of three units, of which a *)
(* row's record takes two and the others one.                              *)
(***************************************************************************)
EXTENDS Server

MCThread == {1, 2}
MCSession ==
  <<{<<"begin", "write", "commit">>, <<"begin", "write", "wrong">>},
    {<<"write">>, <<"read", "abort">>, <<"bad", "exit">>, <<"crash">>}>>
MCLogRecord == [txn : 0 .. 3, type : RecordType, prev_lsn : -1 .. 8]
MCLen(r) == IF r.type = "DATA" THEN 2 ELSE 1
=============================================================================
