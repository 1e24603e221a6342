----------------------------- MODULE MCDatasets -----------------------------
(***************************************************************************)
(* Files of three documents and features beyond the window.                *)
(***************************************************************************)
EXTENDS Datasets

MCDoc == 1..3
MCFeature == 1..3
MCFeatureSets == {{}, {1}, {2, 3}}
MCConf(nd, sd, sf, ns) ==
  [nDocs |-> nd, startDoc |-> sd, nFeatures |-> 2,
   startFeature |-> sf, nSlices |-> ns]
MCConfs ==
  {MCConf(2, sd, sf, ns) : sd \in {0, 1}, sf \in {0, 1}, ns \in {1, 2}}
  \cup {MCConf(2, 0, 0, 3), MCConf(3, 0, 0, 2)}

=============================================================================
