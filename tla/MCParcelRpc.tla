---- MODULE MCParcelRpc ----
\* Strings of one unit; requests of the shortest and the longest format, one
\* of them with a response longer than a parcel without malloc.
EXTENDS ParcelRpc

MCRequests ==
    {[type |-> MEDIA_ID_FOCUS, target |-> <<1>>, cmd |-> <<2>>, arg |-> NULL,
      apply |-> 0, res_len |-> 0],
     [type |-> MEDIA_ID_POLICY, target |-> <<2>>, cmd |-> <<1>>, arg |-> NULL,
      apply |-> 1, res_len |-> 4]}

MCHandler(r) ==
    [ret |-> IF r.type = MEDIA_ID_FOCUS THEN ENOSYS ELSE r.apply,
     response |-> IF r.res_len > 0 THEN <<1, 2, 1>> ELSE NULL]

MCKey == <<1>>
MCCpu == <<2>>
====
