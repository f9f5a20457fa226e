--------------------------- MODULE AssetClassifier ---------------------------
(***************************************************************************)
(* Which per-identity, per-asset index buckets a transaction lands in.     *)
(* Two code paths decide it:                                               *)
(*  - StoreQxAssetTransfers (validator/tx/validator.go), called by the     *)
(*    pipeline's tx.Store and by migration 001: it keeps the transactions  *)
(*    of input type 2 whose input decodes as a Qx transfer payload;        *)
(*  - ParseAssetTransaction and FindTransactionIdParticipantsAndCurrency   *)
(*    (package asset_transactions), which StoreAssetTransactions           *)
(*    (validator/tx/models.go) groups with createIdentityMap.              *)
(* Both are set against the classifier of spec 4.7.                       *)
(*                                                                         *)
(* A transaction is its source, destination, input type and input. The     *)
(* input is abstracted to its length class (too short for any payload, the *)
(* 80 bytes of a Qx transfer, or a send-many payload, which is longer) and *)
(* to what the decoders read from it: the Qx transfer's new owner, issuer  *)
(* and asset name, and the send-many destinations.                         *)
(***************************************************************************)
EXTENDS Naturals

CONSTANTS
    Identities,  \* ordinary identities
    QX,          \* SMART_CONTRACT_QX
    QUTIL,       \* SMART_CONTRACT_QUTIL (= types.QutilAddress)
    AssetNames   \* asset names a Qx transfer payload may carry

VARIABLE tx      \* the transaction being classified

Addresses == Identities \cup {QX, QUTIL}
InputTypes == 0..3
Sizes == {"short", "qxInput", "sendManyInput"}

Transactions ==
    [source : Identities, dest : Addresses, inputType : InputTypes,
     size : Sizes, owner : Identities, issuer : Identities,
     assetName : AssetNames, smDests : SUBSET Identities]

(* NATIVE_QUBIC_ASSET_ISSUER and NATIVE_QUBIC_ASSET_NAME. *)
NativeCurrency == <<"0", "0">>

-----------------------------------------------------------------------------
(* QxTransferAssetOwnershipAndPossessionInput.UnmarshalBinary: four       *)
(* binary.Reads that need the first 80 bytes and ignore the rest.          *)
QxDecodes(t) == t.size \in {"qxInput", "sendManyInput"}

(* SendManyTransferPayload.UnmarshallBinary and GetTransfers. *)
SendManyDecodes(t) == t.size = "sendManyInput"

(* ParseAssetTransaction: the payload kind, or "invalid" for              *)
(* ErrNotValidTransaction. The input type is tested before the contract.  *)
ParseAssetTransaction(t) ==
    CASE t.inputType = 0 -> "native"
      [] t.dest = QUTIL /\ t.inputType = 1 ->
            IF SendManyDecodes(t) THEN "sendMany" ELSE "invalid"
      [] t.dest = QX /\ t.inputType = 2 ->
            IF QxDecodes(t) THEN "qxTransfer" ELSE "invalid"
      [] OTHER -> "invalid"

(* findTransactionParticipants: the identities of a parsed transaction,   *)
(* without repeats (the seen map).                                         *)
FindTransactionParticipants(t, kind) ==
    CASE kind = "native"     -> {t.source, t.dest}
      [] kind = "sendMany"   -> {t.source} \cup t.smDests
      [] kind = "qxTransfer" -> {t.source, t.owner}

(* findTransactionCurrency. *)
FindTransactionCurrency(t, kind) ==
    IF kind = "qxTransfer" THEN <<t.issuer, t.assetName>> ELSE NativeCurrency

(* StoreAssetTransactions: removeNonTransactionWithAssetPayloadsAndConvert *)
(* keeps the parsed transactions and createIdentityMap files each under   *)
(* every participant and the asset id issuer ++ name.                      *)
AssetTransactionBuckets(t) ==
    LET kind == ParseAssetTransaction(t)
    IN IF kind = "invalid" THEN {}
       ELSE {<<p, FindTransactionCurrency(t, kind)>> :
                p \in FindTransactionParticipants(t, kind)}

(* removeNonQxAssetTransferTransactionsAndConvert: input type 2 and an    *)
(* input that decodes, whatever the destination.                           *)
IsQxAssetTransfer(t) == t.inputType = 2 /\ QxDecodes(t)

(* StoreQxAssetTransfers: createQxAssetTransfersIdentityMap files the      *)
(* transfer under its new owner and its source, and                        *)
(* createQxAssetTransferAssetIdMap under the asset id issuer ++ name.      *)
QxAssetTransferBuckets(t) ==
    IF IsQxAssetTransfer(t)
    THEN {<<p, <<t.issuer, t.assetName>>>> : p \in {t.owner, t.source}}
    ELSE {}

-----------------------------------------------------------------------------
(* The classifier of spec 4.7, as the buckets of spec 8 item 3. *)
SpecBuckets(t) ==
    LET participants ==
          CASE t.inputType = 0 -> {t.source, t.dest}
            [] t.dest = QUTIL /\ t.inputType = 1 /\ SendManyDecodes(t) ->
                  {t.source} \cup t.smDests
            [] t.dest = QX /\ t.inputType = 2 /\ QxDecodes(t) ->
                  {t.source, t.owner}
            [] OTHER -> {}
        currency ==
          IF t.dest = QX /\ t.inputType = 2 THEN <<t.issuer, t.assetName>>
          ELSE NativeCurrency
    IN {<<p, currency>> : p \in participants}

-----------------------------------------------------------------------------
Init == tx \in Transactions
Next == UNCHANGED tx
Spec == Init /\ [][Next]_tx

(* The Qx asset index of the pipeline and of migration 001 files a        *)
(* transaction only under buckets the spec's classifier gives it (spec 8   *)
(* item 3: "and in no other asset bucket"): StoreQxAssetTransfers must not *)
(* index what is not an asset-ownership transfer to the Qx contract.       *)
QxAssetIndexSound ==
    QxAssetTransferBuckets(tx) \subseteq SpecBuckets(tx)

=============================================================================
