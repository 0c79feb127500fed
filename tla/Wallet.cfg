CONSTANTS
  station = station
  bearby = bearby
  s1 = s1
  s2 = s2
  b1 = b1
  b2 = b2
  addr1 = addr1
  addr2 = addr2
  addr3 = addr3
  Wallets = {station, bearby}
  Accounts = {s1, s2, b1, b2}
  Addresses = {addr1, addr2, addr3}
  WalletOf <- MCWalletOf
  AddressOf <- MCAddressOf
  Nobody = Nobody
  MaxDetections = 2
SPECIFICATION Spec
INVARIANTS SessionWhole AccountOfWallet  LeftStaysLeft ConnectPossible
