------------------------------- MODULE A2AErrors -------------------------------
(******************************************************************************)
(* The errors of the SDK and the two wire forms they take: a JSON-RPC code    *)
(* and the reason of a REST error body.  An error is named by its variant of  *)
(* A2AError; messages and attached data are left out.                         *)
(******************************************************************************)
EXTENDS Integers

\* The codes a server may put in a JSON-RPC error, by the error they stand for
\* (AuthenticatedExtendedCardNotConfigured is the code of
\* ExtendedCardNotConfigured).
JsonRpcErrorCode ==
    [ParseError |-> -32700, InvalidRequest |-> -32600, MethodNotFound |-> -32601,
     InvalidParams |-> -32602, InternalError |-> -32603, ServerError |-> -32000,
     TaskNotFound |-> -32001, TaskNotCancelable |-> -32002,
     PushNotificationNotSupported |-> -32003, UnsupportedOperation |-> -32004,
     ContentTypeNotSupported |-> -32005, InvalidAgentResponse |-> -32006,
     ExtendedCardNotConfigured |-> -32007, ConcurrentTaskModification |-> -32008,
     ExtensionSupportRequired |-> -32009, VersionNotSupported |-> -32010,
     Unauthenticated |-> -31401, Unauthorized |-> -31403]

\* Errors with a code of their own, and the ones that become InternalError:
\* JsonRpc wraps a JSON-RPC error, whatever its code.
ProtocolErrors == DOMAIN JsonRpcErrorCode
OtherErrors == {"JsonRpc", "Http", "Json", "Database", "Other"}
A2AError == ProtocolErrors \union OtherErrors

CodeOf(error) ==
    JsonRpcErrorCode[IF error \in ProtocolErrors THEN error ELSE "InternalError"]

\* Mutant: the table of codes is one row off.
ErrorOfCodeShifted(code) ==
    IF \E e \in ProtocolErrors : JsonRpcErrorCode[e] = code - 1
    THEN CHOOSE e \in ProtocolErrors : JsonRpcErrorCode[e] = code - 1
    ELSE "InternalError"

\* How a client reads a code back: every code but ServerError's is known.
ErrorOfCode(code) ==
    IF \E e \in ProtocolErrors \ {"ServerError"} : JsonRpcErrorCode[e] = code
    THEN CHOOSE e \in ProtocolErrors \ {"ServerError"} : JsonRpcErrorCode[e] = code
    ELSE "InternalError"

\* The reason in a REST error body (the HTTP status is always an error status).
RestReason ==
    [ParseError |-> "INVALID_REQUEST", InvalidRequest |-> "INVALID_REQUEST",
     InvalidParams |-> "INVALID_REQUEST", MethodNotFound |-> "METHOD_NOT_FOUND",
     TaskNotFound |-> "TASK_NOT_FOUND", TaskNotCancelable |-> "TASK_NOT_CANCELABLE",
     PushNotificationNotSupported |-> "PUSH_NOTIFICATION_NOT_SUPPORTED",
     UnsupportedOperation |-> "UNSUPPORTED_OPERATION",
     ContentTypeNotSupported |-> "UNSUPPORTED_CONTENT_TYPE",
     InvalidAgentResponse |-> "INVALID_AGENT_RESPONSE",
     ExtendedCardNotConfigured |-> "EXTENDED_AGENT_CARD_NOT_CONFIGURED",
     Unauthenticated |-> "UNAUTHENTICATED", Unauthorized |-> "UNAUTHORIZED",
     ConcurrentTaskModification |-> "CONCURRENT_TASK_MODIFICATION",
     ExtensionSupportRequired |-> "EXTENSION_SUPPORT_REQUIRED",
     VersionNotSupported |-> "VERSION_NOT_SUPPORTED"]

ReasonOf(error) ==
    IF error \in DOMAIN RestReason THEN RestReason[error] ELSE "INTERNAL_ERROR"

\* The reasons a REST client knows.
KnownReasons ==
    [TASK_NOT_FOUND |-> "TaskNotFound", TASK_NOT_CANCELABLE |-> "TaskNotCancelable",
     PUSH_NOTIFICATION_NOT_SUPPORTED |-> "PushNotificationNotSupported",
     UNSUPPORTED_OPERATION |-> "UnsupportedOperation",
     UNSUPPORTED_CONTENT_TYPE |-> "ContentTypeNotSupported",
     INVALID_AGENT_RESPONSE |-> "InvalidAgentResponse",
     EXTENSION_SUPPORT_REQUIRED |-> "ExtensionSupportRequired",
     VERSION_NOT_SUPPORTED |-> "VersionNotSupported"]

ErrorOfReason(reason) ==
    IF reason \in DOMAIN KnownReasons THEN KnownReasons[reason] ELSE "Other"

\* What a client may see instead of an error's own kind.
Generic == {"InternalError", "Other"}
================================================================================
