---------------------------- MODULE MCDisclosure ----------------------------
(* Small seals and disclosures for Disclosure. *)
EXTENDS Disclosure

CONSTANTS d1, d2   \* output directories

TwoDirs == Permutations({d1, d2})

SomeFields == <<{}, {"/toolInput", "/output"}, {"/toolInput"}, {}, {"/output"}, {}, {}>>
SomeCaptured == {1, 2, 4}

Select(indices, fields, include) == [indices |-> indices, fields |-> fields, include |-> include]
SomeSelections == {Select({0, 1}, {"/toolInput"}, {"narrative.md"}),
                   Select({0, 2}, Paths, {}),
                   Select({1}, {}, {}),
                   Select({0}, {}, {"notes.txt"})}
=============================================================================
