---------------------------- MODULE SolanaErrors ----------------------------
(***************************************************************************)
(* The errors of transactions: their names and numbers, their JSON form and *)
(* their bincode form, which the protobuf metadata holds.  A JSON error is  *)
(* {name: ...} with one of the shapes                                       *)
(*   unit     nothing of interest under the name                            *)
(*   list     [code]                                                        *)
(*   object   {"account_index": code}                                       *)
(*   ix       [code, sub]                                                   *)
(*   custom   [code, {"Custom": custom}]                                    *)
(*   borsh    [code, {sub: ...}] with another sub                           *)
(***************************************************************************)
EXTENDS Bincode

LOCAL SeqExt == INSTANCE SequencesExt

Json(name, shape, code, sub, custom) ==
    [name |-> name, shape |-> shape, code |-> code, sub |-> sub, custom |-> custom]

\* What getErr returns when there is no error, and when the map is nil.
NilErr == Json("", "nil", 0, "", 0)
NilMap == Json("", "nilmap", 0, "", 0)

\* The names, as the constants of parser.go spell them.
TransactionErrors ==
    <<"AccountInUse", "AccountLoadedTwice", "AccountNotFound", "ProgramAccountNotFound",
      "InsufficientFundsForFee", "InvalidAccountForFee", "AlreadyProcessed",
      "BlockhashNotFound", "InstructionError", "CallChainTooDeep", "MissingSignatureForFee",
      "InvalidAccountIndex", "SignatureFailure", "InvalidProgramForExecution",
      "SanitizeFailure", "ClusterMaintenance", "AccountBorrowOutstanding",
      "WouldExceedMaxBlockCostLimit", "UnsupportedVersion", "InvalidWritableAccount",
      "WouldExceedMaxAccountCostLimit", "WouldExceedAccountDataBlockLimit",
      "TooManyAccountLocks", "AddressLookupTableNotFound", "InvalidAddressLookupTableOwner",
      "InvalidAddressLookupTableData", "InvalidAddressLookupTableIndex",
      "InvalidRentPayingAccount", "WouldExceedMaxVoteCostLimit",
      "WouldExceedAccountDataTotalLimit", "DuplicateInstruction", "InsufficientFundsForRent",
      "MaxLoadedAccountsDataSizeExceeded", "InvalidLoadedAccountsDataSizeLimit",
      "ResanitizationNeeded", "ProgramExecutionTemporarilyRestricted",
      "UnbalancedTransaction", "ProgramCacheHitMaxLimit">>

InstructionErrors ==
    <<"GenericError", "InvalidArgument", "InvalidInstructionData", "InvalidAccountData",
      "AccountDataTooSmall", "InsufficientFunds", "IncorrectProgramId",
      "MissingRequiredSignature", "AccountAlreadyInitialized", "UninitializedAccount",
      "UnbalancedInstruction", "ModifiedProgramId", "ExternalAccountLamportSpend",
      "ExternalAccountDataModified", "ReadonlyLamportChange", "ReadonlyDataModified",
      "DuplicateAccountIndex", "ExecutableModified", "RentEpochModified",
      "NotEnoughAccountKeys", "AccountDataSizeChanged", "AccountNotExecutable",
      "AccountBorrowFailed", "AccountBorrowOutstanding", "DuplicateAccountOutOfSync",
      "Custom", "InvalidError", "ExecutableDataModified", "ExecutableLamportChange",
      "ExecutableAccountNotRentExempt", "UnsupportedProgramId", "CallDepth",
      "MissingAccount", "ReentrancyNotAllowed", "MaxSeedLengthExceeded", "InvalidSeeds",
      "InvalidRealloc", "ComputationalBudgetExceeded", "PrivilegeEscalation",
      "ProgramEnvironmentSetupFailure", "ProgramFailedToComplete", "ProgramFailedToCompile",
      "Immutable", "IncorrectAuthority", "BorshIoError", "AccountNotRentExempt",
      "InvalidAccountOwner", "ArithmeticOverflow", "UnsupportedSysvar", "IllegalOwner",
      "MaxAccountsDataAllocationsExceeded", "MaxAccountsExceeded",
      "MaxInstructionTraceLengthExceeded", "BuiltinProgramsMustConsumeComputeUnits">>

\* The tables of names by number, in pascal case, which is how they are compared.
TransactionErrorType_name ==
    <<"AccountInUse", "AccountLoadedTwice", "AccountNotFound", "ProgramAccountNotFound",
      "InsufficientFundsForFee", "InvalidAccountForFee", "AlreadyProcessed",
      "BlockhashNotFound", "InstructionError", "CallChainTooDeep", "MissingSignatureForFee",
      "InvalidAccountIndex", "SignatureFailure", "InvalidProgramForExecution",
      "SanitizeFailure", "ClusterMaintenance", "AccountBorrowOutstandingTx",
      "WouldExceedMaxBlockCostLimit", "UnsupportedVersion", "InvalidWritableAccount",
      "WouldExceedMaxAccountCostLimit", "WouldExceedAccountDataBlockLimit",
      "TooManyAccountLocks", "AddressLookupTableNotFound", "InvalidAddressLookupTableOwner",
      "InvalidAddressLookupTableData", "InvalidAddressLookupTableIndex",
      "InvalidRentPayingAccount", "WouldExceedMaxVoteCostLimit",
      "WouldExceedAccountDataTotalLimit", "DuplicateInstruction", "InsufficientFundsForRent",
      "MaxLoadedAccountsDataSizeExceeded", "InvalidLoadedAccountsDataSizeLimit",
      "ResanitizationNeeded", "ProgramExecutionTemporarilyRestricted",
      "UnbalancedTransaction", "ProgramCacheHitMaxLimit">>

InstructionErrorType_name ==
    <<"GenericError", "InvalidArgument", "InvalidInstructionData", "InvalidAccountData",
      "AccountDataTooSmall", "InsufficientFunds", "IncorrectProgramId",
      "MissingRequiredSignature", "AccountAlreadyInitialized", "UninitializedAccount",
      "UnbalancedInstruction", "ModifiedProgramId", "ExternalAccountLamportSpend",
      "ExternalAccountDataModified", "ReadonlyLamportChange", "ReadonlyDataModified",
      "DuplicateAccountIndex", "ExecutableModified", "RentEpochModified",
      "NotEnoughAccountKeys", "AccountDataSizeChanged", "AccountNotExecutable",
      "AccountBorrowFailed", "AccountBorrowOutstanding", "DuplicateAccountOutOfSync",
      "Custom", "InvalidError", "ExecutableDataModified", "ExecutableLamportChange",
      "ExecutableAccountNotRentExempt", "UnsupportedProgramId", "CallDepth",
      "MissingAccount", "ReentrancyNotAllowed", "MaxSeedLengthExceeded", "InvalidSeeds",
      "InvalidRealloc", "ComputationalBudgetExceeded", "PrivilegeEscalation",
      "ProgramEnvironmentSetupFailure", "ProgramFailedToComplete", "ProgramFailedToCompile",
      "Immutable", "IncorrectAuthority", "BorshIoError", "AccountNotRentExempt",
      "InvalidAccountOwner", "ArithmeticOverflow", "UnsupportedSysvar", "IllegalOwner",
      "MaxAccountsDataAllocationsExceeded", "MaxAccountsExceeded",
      "MaxInstructionTraceLengthExceeded", "BuiltinProgramsMustConsumeComputeUnits">>

INSTRUCTION_ERROR == 8
DUPLICATE_INSTRUCTION == 30
INSUFFICIENT_FUNDS_FOR_RENT == 31
PROGRAM_EXECUTION_TEMPORARILY_RESTRICTED == 35
CUSTOM == 25

NumberIn(table, name) == (CHOOSE i \in DOMAIN table : table[i] = name) - 1

Encoded(bytes) == [ok |-> TRUE, bytes |-> bytes]

\* The list or object under the name, with one number.
WithIndex(type, j, shape) ==
    IF j.shape = shape THEN Encoded(LittleEndian(type, 4) \o <<j.code>>) ELSE Failed

FromInstructionError(j) ==
    LET head == LittleEndian(INSTRUCTION_ERROR, 4) \o <<j.code>>
    IN  CASE j.shape = "ix" /\ j.sub \in SeqExt!ToSet(InstructionErrorType_name) ->
                Encoded(head \o LittleEndian(NumberIn(InstructionErrorType_name, j.sub), 4))
          [] j.shape = "custom" -> Encoded(head \o LittleEndian(CUSTOM, 4) \o LittleEndian(j.custom, 4))
          [] OTHER -> Failed

\* An error without parameters is its number alone.
FromJSONToProtobuf(j) ==
    CASE j.name = "InstructionError" -> FromInstructionError(j)
      [] j.name = "InsufficientFundsForRent" -> WithIndex(INSUFFICIENT_FUNDS_FOR_RENT, j, "object")
      [] j.name = "ProgramExecutionTemporarilyRestricted" ->
            WithIndex(PROGRAM_EXECUTION_TEMPORARILY_RESTRICTED, j, "object")
      [] j.name = "DuplicateInstruction" -> WithIndex(DUPLICATE_INSTRUCTION, j, "list")
      [] OTHER -> IF j.name \in SeqExt!ToSet(TransactionErrorType_name)
                  THEN Encoded(LittleEndian(NumberIn(TransactionErrorType_name, j.name), 4))
                  ELSE Failed

\* The metadata has no error when b is empty.  Whatever cannot be read makes the result a
\* nil map with an error, which both callers drop; a code is read in any case.
ParseTransactionError(b) ==
    LET type == ReadInt(4, b, 0)
        code == ReadInt(1, b, 4)
        sub == ReadInt(4, b, 5)
        custom == ReadInt(4, b, 9)
    IN  IF ~type.ok \/ ~code.ok THEN NilMap
        ELSE IF type.v + 1 \notin DOMAIN TransactionErrorType_name THEN NilMap
        ELSE LET name == TransactionErrorType_name[type.v + 1]
             IN  IF type.v # INSTRUCTION_ERROR THEN Json(name, "list", code.v, "", 0)
                 ELSE IF ~sub.ok THEN NilMap
                 ELSE IF sub.v + 1 \notin DOMAIN InstructionErrorType_name THEN NilMap
                 ELSE IF sub.v # CUSTOM
                 THEN Json(name, "ix", code.v, InstructionErrorType_name[sub.v + 1], 0)
                 ELSE IF custom.ok THEN Json(name, "custom", code.v, "", custom.v) ELSE NilMap
=============================================================================
