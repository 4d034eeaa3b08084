---------------------------- MODULE MCResolution ----------------------------
EXTENDS Resolution

\* Any name may be declared by the file; one of them is a builtin's.
MCNames == {"x", "len"}

MCBuiltins == <<"len">>
=============================================================================
