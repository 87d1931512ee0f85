------------------------------- MODULE MCDict -------------------------------
(***************************************************************************)
(* A four-bit key: labels long enough for all three encodings, and a large *)
(* value that has no room beside a long one.  Beside it a prefix           *)
(* dictionary with keys of up to four bits: some prefixes of others, some  *)
(* that part late.  One of the two is in use while the other is empty.     *)
(***************************************************************************)
EXTENDS Dict

MCKeys == {<<0, 0, 0, 0>>, <<0, 1, 1, 0>>, <<1, 0, 1, 0>>, <<1, 0, 1, 1>>, <<1, 1, 1, 1>>}
MCKeeps == {{}, {k \in MCKeys : k[1] = 0}, {k \in MCKeys : k[4] = 1}, {k \in MCKeys : k[2] = k[3]}}
MCMerges == {{<<0, 0, 0, 0>>}, {<<0, 1, 1, 0>>, <<1, 0, 1, 0>>}, {<<1, 0, 1, 1>>, <<1, 1, 1, 1>>}}

MCPfxKeys == {<<>>, <<1>>, <<0, 0>>, <<0, 1, 1>>, <<1, 0>>, <<1, 1, 0>>, <<1, 0, 1, 0>>, <<1, 0, 1, 1>>}

CONSTANT PfxMaxItems
VARIABLES pfxRoot, pfxMap
Pfx == INSTANCE PfxDict
         WITH Keys <- MCPfxKeys, Values <- {1, 4}, MaxItems <- PfxMaxItems, CELL_BITS <- 12,
              root <- pfxRoot, map <- pfxMap

pfxVars == <<pfxRoot, pfxMap>>

MCInit == Init /\ Pfx!Init
MCNext ==
  \/ pfxRoot = Pfx!Empty /\ Next /\ UNCHANGED pfxVars
  \/ shape = "plain" /\ root = Empty /\ Pfx!Next /\ UNCHANGED vars
MCSpec == MCInit /\ [][MCNext]_<<vars, pfxVars>>

-----------------------------------------------------------------------------
\* A prefix dictionary is the one tree of its keys, whatever calls led to it,
\* and none of its keys is a prefix of another (PfxDict.MinimalForItsKeys;
\* PfxDict::set, remove, collapse).
MinimalForItsKeys == Pfx!MinimalForItsKeys

\* Its lookups, walks and validate tell the truth about the whole dictionary
\* or say that a proof hides it, and its writers refuse only a key that
\* clashes with one stored, one no cell has room for or one a proof hides
\* (PfxDict.ReadersAreTrue and RefusesOnlyTheImpossible; get, lookup_prefix,
\* PfxDictIter, insert, remove_from).
PrefixesAnswerTruly == Pfx!ReadersAreTrue /\ Pfx!RefusesOnlyTheImpossible
=============================================================================
