SPECIFICATION ScopeSpec
INVARIANTS UnknownBitsWiden
