SPECIFICATION Spec
CONSTANTS
  Request = {q1, q2, q3}
  Nobody = Nobody
  Unset = Unset
  User = {u1}
  Stranger = Stranger
  Everyone = Everyone
  MaxItems = 2
  Named = {{"speed_limit", "acceleration_limit"}, {"secure_barcode_key", "speed_limit"}, {"is_api", "api_url", "interval", "headers"}}
  Pages = {{"barcode", "put_settings"}, {"forward", "update"}, {"lead", "order", "status", "upload"}, {"publish", "deploy", "withdraw"}, {"notify", "read_one", "read_all"}}
INVARIANTS TypeOK SettingsKept ForwardingKept RowsKept DeploymentsKept ReadKept KeyComesWithId
PROPERTIES KeySettles
CHECK_DEADLOCK FALSE
SYMMETRY Symmetry
