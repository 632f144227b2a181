----------------------------- MODULE MCFrontend -----------------------------
(* ParseFile, Validate, Emit's choices and WriteBindings over small files. *)
EXTENDS Artifacts

Field(kind, len) == [kind |-> kind, len |-> len]

\* One struct without gaps and with an array, and one that C pads.
MCStructs == {<<Field("uint8", 2), Field("uint16", 1), Field("uint32", 1)>>,
              <<Field("uint8", 1), Field("uint64", 1)>>}

\* None, and a fault at every place.
MCFaultSets == {{}, {1, 2, 3, 4}}

\* A helper name of several words, with a digit inside one.
MCHelperDefs == {<<"a", "_", "a", "a", "1", "_", "a">>}
=============================================================================
