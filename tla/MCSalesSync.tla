---------------------------- MODULE MCSalesSync ----------------------------
(***************************************************************************)
(* Small instances of SalesSync for TLC: a sale paid at once and a bill    *)
(* split in two payments, printed with the same invoice number.            *)
(***************************************************************************)
EXTENDS SalesSync

CONSTANTS plain, bill, shop, kiosk

MCPayments == [s \in Sales |-> IF s = bill THEN 2 ELSE 1]
MCSplit == {bill} \cap Sales
MCPrinted == [s \in Sales |-> 1]
MCOneOutlet == [s \in Sales |-> shop]
MCTwoOutlets == [s \in Sales |-> IF s = bill THEN kiosk ELSE shop]

BillRefused == [s \in Sales |-> IF s = bill THEN "sale" ELSE "none"]
MixedRefusal == [s \in Sales |-> IF s = plain THEN "batch" ELSE "sale"]
PlainFailsBatch == [s \in Sales |-> IF s = plain THEN "batch" ELSE "none"]
=============================================================================
