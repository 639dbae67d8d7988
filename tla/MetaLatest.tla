------------------------------ MODULE MetaLatest ------------------------------
(*****************************************************************************)
(* The last bincode format of the metadata of a transaction, before protobuf. *)
(*****************************************************************************)
EXTENDS Bincode

tuple1_u8 == Struct(<<U8>>)
tuple4_tuple1_u8_u8_u8_u8 == Struct(<<tuple1_u8, U8, U8, U8>>)

CompiledInstruction == Struct(<<U8, tuple4_tuple1_u8_u8_u8_u8, tuple4_tuple1_u8_u8_u8_u8>>)
vector_CompiledInstruction == Vec(CompiledInstruction)
InnerInstructions == Struct(<<U8, vector_CompiledInstruction>>)
vector_InnerInstructions == Vec(InnerInstructions)
option_vector_InnerInstructions == Option(vector_InnerInstructions)
vector_u64 == Vec(U64)

InstructionError__GenericError == Variant(0, "GenericError", <<>>)
InstructionError__InvalidArgument == Variant(1, "InvalidArgument", <<>>)
InstructionError__InvalidInstructionData == Variant(2, "InvalidInstructionData", <<>>)
InstructionError__InvalidAccountData == Variant(3, "InvalidAccountData", <<>>)
InstructionError__AccountDataTooSmall == Variant(4, "AccountDataTooSmall", <<>>)
InstructionError__InsufficientFunds == Variant(5, "InsufficientFunds", <<>>)
InstructionError__IncorrectProgramId == Variant(6, "IncorrectProgramId", <<>>)
InstructionError__MissingRequiredSignature == Variant(7, "MissingRequiredSignature", <<>>)
InstructionError__AccountAlreadyInitialized == Variant(8, "AccountAlreadyInitialized", <<>>)
InstructionError__UninitializedAccount == Variant(9, "UninitializedAccount", <<>>)
InstructionError__UnbalancedInstruction == Variant(10, "UnbalancedInstruction", <<>>)
InstructionError__ModifiedProgramId == Variant(11, "ModifiedProgramId", <<>>)
InstructionError__ExternalAccountLamportSpend == Variant(12, "ExternalAccountLamportSpend", <<>>)
InstructionError__ExternalAccountDataModified == Variant(13, "ExternalAccountDataModified", <<>>)
InstructionError__ReadonlyLamportChange == Variant(14, "ReadonlyLamportChange", <<>>)
InstructionError__ReadonlyDataModified == Variant(15, "ReadonlyDataModified", <<>>)
InstructionError__DuplicateAccountIndex == Variant(16, "DuplicateAccountIndex", <<>>)
InstructionError__ExecutableModified == Variant(17, "ExecutableModified", <<>>)
InstructionError__RentEpochModified == Variant(18, "RentEpochModified", <<>>)
InstructionError__NotEnoughAccountKeys == Variant(19, "NotEnoughAccountKeys", <<>>)
InstructionError__AccountDataSizeChanged == Variant(20, "AccountDataSizeChanged", <<>>)
InstructionError__AccountNotExecutable == Variant(21, "AccountNotExecutable", <<>>)
InstructionError__AccountBorrowFailed == Variant(22, "AccountBorrowFailed", <<>>)
InstructionError__AccountBorrowOutstanding == Variant(23, "AccountBorrowOutstanding", <<>>)
InstructionError__DuplicateAccountOutOfSync == Variant(24, "DuplicateAccountOutOfSync", <<>>)
InstructionError__Custom == Variant(25, "Custom", <<U32>>)

\* Mutant of InstructionError__InvalidError: the index of the variant before it.
InstructionError__InvalidErrorIndex == Variant(25, "InvalidError", <<>>)

InstructionError__InvalidError == Variant(26, "InvalidError", <<>>)
InstructionError__ExecutableDataModified == Variant(27, "ExecutableDataModified", <<>>)
InstructionError__ExecutableLamportChange == Variant(28, "ExecutableLamportChange", <<>>)
InstructionError__ExecutableAccountNotRentExempt == Variant(29, "ExecutableAccountNotRentExempt", <<>>)
InstructionError__UnsupportedProgramId == Variant(30, "UnsupportedProgramId", <<>>)
InstructionError__CallDepth == Variant(31, "CallDepth", <<>>)
InstructionError__MissingAccount == Variant(32, "MissingAccount", <<>>)
InstructionError__ReentrancyNotAllowed == Variant(33, "ReentrancyNotAllowed", <<>>)
InstructionError__MaxSeedLengthExceeded == Variant(34, "MaxSeedLengthExceeded", <<>>)
InstructionError__InvalidSeeds == Variant(35, "InvalidSeeds", <<>>)
InstructionError__InvalidRealloc == Variant(36, "InvalidRealloc", <<>>)
InstructionError__ComputationalBudgetExceeded == Variant(37, "ComputationalBudgetExceeded", <<>>)

InstructionError ==
    Enum(<<InstructionError__GenericError, InstructionError__InvalidArgument,
           InstructionError__InvalidInstructionData, InstructionError__InvalidAccountData,
           InstructionError__AccountDataTooSmall, InstructionError__InsufficientFunds,
           InstructionError__IncorrectProgramId, InstructionError__MissingRequiredSignature,
           InstructionError__AccountAlreadyInitialized,
           InstructionError__UninitializedAccount, InstructionError__UnbalancedInstruction,
           InstructionError__ModifiedProgramId, InstructionError__ExternalAccountLamportSpend,
           InstructionError__ExternalAccountDataModified,
           InstructionError__ReadonlyLamportChange, InstructionError__ReadonlyDataModified,
           InstructionError__DuplicateAccountIndex, InstructionError__ExecutableModified,
           InstructionError__RentEpochModified, InstructionError__NotEnoughAccountKeys,
           InstructionError__AccountDataSizeChanged, InstructionError__AccountNotExecutable,
           InstructionError__AccountBorrowFailed, InstructionError__AccountBorrowOutstanding,
           InstructionError__DuplicateAccountOutOfSync, InstructionError__Custom,
           InstructionError__InvalidError, InstructionError__ExecutableDataModified,
           InstructionError__ExecutableLamportChange,
           InstructionError__ExecutableAccountNotRentExempt,
           InstructionError__UnsupportedProgramId, InstructionError__CallDepth,
           InstructionError__MissingAccount, InstructionError__ReentrancyNotAllowed,
           InstructionError__MaxSeedLengthExceeded, InstructionError__InvalidSeeds,
           InstructionError__InvalidRealloc, InstructionError__ComputationalBudgetExceeded>>)

TransactionError__AccountInUse == Variant(0, "AccountInUse", <<>>)
TransactionError__AccountLoadedTwice == Variant(1, "AccountLoadedTwice", <<>>)
TransactionError__AccountNotFound == Variant(2, "AccountNotFound", <<>>)
TransactionError__ProgramAccountNotFound == Variant(3, "ProgramAccountNotFound", <<>>)
TransactionError__InsufficientFundsForFee == Variant(4, "InsufficientFundsForFee", <<>>)
TransactionError__InvalidAccountForFee == Variant(5, "InvalidAccountForFee", <<>>)
TransactionError__DuplicateSignature == Variant(6, "DuplicateSignature", <<>>)
TransactionError__BlockhashNotFound == Variant(7, "BlockhashNotFound", <<>>)
TransactionError__InstructionError == Variant(8, "InstructionError", <<U8, InstructionError>>)
TransactionError__CallChainTooDeep == Variant(9, "CallChainTooDeep", <<>>)
TransactionError__MissingSignatureForFee == Variant(10, "MissingSignatureForFee", <<>>)
TransactionError__InvalidAccountIndex == Variant(11, "InvalidAccountIndex", <<>>)
TransactionError__SignatureFailure == Variant(12, "SignatureFailure", <<>>)
TransactionError__InvalidProgramForExecution == Variant(13, "InvalidProgramForExecution", <<>>)
TransactionError__SanitizeFailure == Variant(14, "SanitizeFailure", <<>>)
TransactionError__ClusterMaintenance == Variant(15, "ClusterMaintenance", <<>>)

TransactionError ==
    Enum(<<TransactionError__AccountInUse, TransactionError__AccountLoadedTwice,
           TransactionError__AccountNotFound, TransactionError__ProgramAccountNotFound,
           TransactionError__InsufficientFundsForFee, TransactionError__InvalidAccountForFee,
           TransactionError__DuplicateSignature, TransactionError__BlockhashNotFound,
           TransactionError__InstructionError, TransactionError__CallChainTooDeep,
           TransactionError__MissingSignatureForFee, TransactionError__InvalidAccountIndex,
           TransactionError__SignatureFailure, TransactionError__InvalidProgramForExecution,
           TransactionError__SanitizeFailure, TransactionError__ClusterMaintenance>>)

Result__Ok == Variant(0, "Ok", <<>>)
Result__Err == Variant(1, "Err", <<TransactionError>>)

Result ==
    Enum(<<Result__Ok, Result__Err>>)

\* Status, Fee, PreBalances, PostBalances, InnerInstructions
TransactionStatusMeta == Struct(<<Result, U64, vector_u64, vector_u64, option_vector_InnerInstructions>>)

\* Bytes that were not read are logged, and are no error.
BincodeDeserializeTransactionStatusMeta(input) == Deserialize(TransactionStatusMeta, input, 0)
BincodeSerializeTransactionStatusMeta(obj) == Serialize(TransactionStatusMeta, obj)
=============================================================================
