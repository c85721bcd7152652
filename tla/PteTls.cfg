SPECIFICATION TlsSpec
CONSTANTS
  Users = {t1, t2}
  MaxTls = 2
  Values = {v}
  Zero = Zero
  Nobody = Nobody
INVARIANTS KeyHasOneOwner NewKeyReadsOwn
