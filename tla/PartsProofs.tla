---------------------------- MODULE PartsProofs -----------------------------
(***************************************************************************)
(* Proofs about MCParts: each part of the sum moves as its own             *)
(* specification says, so what is proved of the parts holds in the sum,    *)
(* and what is checked in the sum is of each part alone.                   *)
(***************************************************************************)
EXTENDS MCParts, ToolRunnerProofs, FormProofs, ModulesProofs

\* In the sum every part behaves as it does alone.
THEOREM PartsAreTheSum ==
  PartsSpec => /\ UploadsSpec /\ ExportSpec /\ GpsSpec /\ HdmiSpec
               /\ OutputsSpec /\ FormSpec /\ ListsSpec /\ HSpec /\ LoginSpec
<1>1. PartsInit => /\ UploadsInit /\ ExportInit /\ GpsInit /\ HdmiInit
                   /\ OutputsInit /\ FormInit /\ ListsInit /\ HInit /\ LoginInit
  BY DEF PartsInit
<1>2. [PartsNext]_partsVars =>
        /\ [UploadsNext]_uploadVars /\ [ExportNext]_exportVars /\ [GpsNext]_gpsVars
        /\ [HdmiNext]_hdmiVars /\ [OutputsNext]_outVars /\ [FormNext]_formVars
        /\ [ListsNext]_listVars /\ [HNext]_hvars /\ [LoginNext]_loginVars
  <2>1. CASE Alone("upload", UploadsNext, <<exportVars, gpsVars, hdmiVars, outVars, formVars, listVars, hvars, loginVars>>)
    BY <2>1 DEF Alone
  <2>2. CASE Alone("export", ExportNext, <<uploadVars, gpsVars, hdmiVars, outVars, formVars, listVars, hvars, loginVars>>)
    BY <2>2 DEF Alone
  <2>3. CASE Alone("gps", GpsNext, <<uploadVars, exportVars, hdmiVars, outVars, formVars, listVars, hvars, loginVars>>)
    BY <2>3 DEF Alone
  <2>4. CASE Alone("hdmi", HdmiNext, <<uploadVars, exportVars, gpsVars, outVars, formVars, listVars, hvars, loginVars>>)
    BY <2>4 DEF Alone
  <2>5. CASE Alone("outputs", OutputsNext, <<uploadVars, exportVars, gpsVars, hdmiVars, formVars, listVars, hvars, loginVars>>)
    BY <2>5 DEF Alone
  <2>6. CASE Alone("form", FormNext, <<uploadVars, exportVars, gpsVars, hdmiVars, outVars, listVars, hvars, loginVars>>)
    BY <2>6 DEF Alone
  <2>7. CASE Alone("lists", ListsNext, <<uploadVars, exportVars, gpsVars, hdmiVars, outVars, formVars, hvars, loginVars>>)
    BY <2>7 DEF Alone
  <2>8. CASE Alone("tool", HNext, <<uploadVars, exportVars, gpsVars, hdmiVars, outVars, formVars, listVars, loginVars>>)
    BY <2>8 DEF Alone
  <2>9. CASE Alone("login", LoginNext, <<uploadVars, exportVars, gpsVars, hdmiVars, outVars, formVars, listVars, hvars>>)
    BY <2>9 DEF Alone
  <2>10. CASE UNCHANGED partsVars
    BY <2>10 DEF partsVars
  <2> QED BY <2>1, <2>2, <2>3, <2>4, <2>5, <2>6, <2>7, <2>8, <2>9, <2>10 DEF PartsNext
<1> QED
  BY <1>1, <1>2, PTL
     DEF PartsSpec, UploadsSpec, ExportSpec, GpsSpec, HdmiSpec, OutputsSpec, FormSpec, ListsSpec, HSpec, LoginSpec

\* ... and so the types hold in the sum.
THEOREM PartsTyped == PartsSpec => []PartsTypeOK
<1>1. UploadsTypeOK /\ ExportTypeOK /\ GpsTypeOK /\ HdmiTypeOK /\ OutputsTypeOK
        /\ FormTypeOK /\ ListsTypeOK /\ HTypeOK => PartsTypeOK
  BY DEF PartsTypeOK
<1> QED
  BY <1>1, PartsAreTheSum, UploadsTyped, ExportsTyped, GpsTyped, HdmiTyped, OutputsTyped, FormTyped,
     ListsTyped, HistoryTyped, PTL
=============================================================================
