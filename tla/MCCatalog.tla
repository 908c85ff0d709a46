------------------------------ MODULE MCCatalog ------------------------------
(* Tables t and t_a: index (a, b) of the first and (b) of the second have  *)
(* the same file name.                                                     *)
EXTENDS Catalog

MCTable == {<<"t">>, <<"t", "a">>}
MCIx == {<<"b">>, <<"a", "b">>}
=============================================================================
