----------------------------- MODULE MCDataMount -----------------------------
(* Values of fileencryption= in the fstabs of Android 13 and later.        *)
EXTENDS DataMount

FstabFlags ==
  {<<"aes-256-xts", "aes-256-cts", "inlinecrypt">>, <<"", "", "inlinecrypt">>,
   <<"", "">>, <<"">>}
=============================================================================
