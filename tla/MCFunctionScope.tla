-------------------------- MODULE MCFunctionScope --------------------------
EXTENDS FunctionScope
=============================================================================
