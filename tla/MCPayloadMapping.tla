-------------------------- MODULE MCPayloadMapping --------------------------
(***************************************************************************)
(* An instance of PayloadMapping with real names: two of the default       *)
(* fields, a known alias, a similar name and an unknown one.  The scores   *)
(* are those of similarity(); pairs not listed are far below the threshold.*)
(***************************************************************************)
EXTENDS PayloadMapping, TLC

Names == {"customer_id", "email_address", "stock_count", "client_num",
          "customer_ref", "region"}

Aliases == [k \in Names |-> IF k = "client_num" THEN "customer_id" ELSE Absent]

Scores ==
  [k \in Names |-> [l \in Names |->
     CASE k = l -> 100
       [] {k, l} = {"customer_id", "customer_ref"} -> 80
       [] OTHER -> 45]]

FromTheLast ==
  "stock_count" :> 1 @@ "region" :> 2 @@ "email_address" :> 3
  @@ "customer_ref" :> 4 @@ "customer_id" :> 5 @@ "client_num" :> 6

(* The default fields; a request that leaves one out; one that expects      *)
(* something similar instead.                                               *)
Lists == {{"customer_id", "email_address", "stock_count"},
          {"customer_id", "stock_count"},
          {"customer_ref", "email_address"}}

(* Up to two rules.                                                         *)
UpToTwoRules ==
  {[k \in Names |-> IF k = a THEN x ELSE IF k = b THEN y ELSE Absent] :
     a, b \in {"client_num", "region"},
     x, y \in {Absent, "customer_id", "region", "customer_ref"}}
=============================================================================
